---- MODULE Spec2Model ----
(***************************************************************************)
(* A model of the ddex-suite bindings and of the fast streaming parser:    *)
(*   - the Node StreamingDdexBuilder (ddex-builder/bindings/node),         *)
(*   - the Node DdexBuilder and the WasmDdexBuilder,                       *)
(*   - the Node DdexParser (ddex-parser/bindings/node),                    *)
(*   - FastStreamingParser::parse_streaming (byte-level scan),             *)
(*   - the remaining parser operations: detect_version, sanity_check,      *)
(*     stream / ReleaseStream, stream_with_version_detection, the          *)
(*     ParseError -> FFIError conversion and the WASM parse_stream,        *)
(*   - FastStreamingIterator.                                              *)
(* Each subsystem has its own specification; the variables of the other    *)
(* subsystems stay at their initial value.                                 *)
(***************************************************************************)
EXTENDS Integers, Sequences, FiniteSets, TLC

VARIABLES
    \* ---- StreamingDdexBuilder (node) ----
    inner,      \* self.inner : Option<StreamingBuilder<Cursor<Vec<u8>>>>
    buffer,     \* self.buffer : Cursor<Vec<u8>> (its bytes)
    sret,       \* what the last call on the streaming builder returned
    ncalls,     \* number of calls made on the streaming builder
    \* ---- DdexBuilder (node) / WasmDdexBuilder ----
    kind,       \* "node": a DdexBuilder, "wasm": a WasmDdexBuilder
    releases,   \* self.releases : Vec<Release>
    resources,  \* self.resources : Vec<Resource>
    stats,      \* self.stats : BuilderStats
    task,       \* the build calls: position and locals of each
    applied,    \* the preset of the last successful apply_preset call
    bret,       \* what the last apply_preset / validate call returned
    nbuilds,    \* number of build calls started
    \* ---- DdexParser (node) / DDEXParser (wasm) ----
    pin,        \* the arguments of the last parser call
    pret,       \* what the last parser call returned
    \* ---- FastStreamingParser::parse_streaming ----
    sbuf,       \* buffer: the bytes read from the reader
    spos,       \* pos: the scan position
    selements,  \* elements: the elements pushed so far
    spc,        \* "new": not called, "scan": in the while loop, "done": returned
    sconf,      \* self.config (progress_interval, max_memory, enable_progress), and whether a callback was given
    slast,      \* last_progress
    sprog,      \* the StreamingProgress values handed to the callback
    siter,      \* the number of loop iterations that went on to the next
    \* ---- detect_version, sanity_check, FFIError, parse_stream ----
    qin,        \* the operation and argument of the last call
    qret,       \* what the last call returned
    \* ---- DdexParser::stream / ReleaseStream (node) ----
    rxml,       \* the xml the stream was asked for
    rstream,    \* the ReleaseStream (its position), None before stream()
    ryield,     \* what the next() calls returned, in call order
    \* ---- DDEXParser::stream_with_version_detection ----
    wpc,        \* position in the function body
    wreader,    \* the reader: its data, offset, and whether seeking works
    wversion,   \* the local `version`
    witer,      \* the iterator created, None when none was
    wret,       \* what the call returned
    \* ---- FastStreamingIterator ----
    fiter,      \* the iterator (elements, position, stats), None before new
    fyield      \* what the next() calls on it returned, in call order

streamVars == <<inner, buffer, sret, ncalls>>

buildVars == <<kind, releases, resources, stats, task, applied, bret, nbuilds>>

parseVars == <<pin, pret>>

scanVars == <<sbuf, spos, selements, spc, sconf, slast, sprog, siter>>

apiVars == <<qin, qret, rxml, rstream, ryield, wpc, wreader, wversion, witer, wret>>

iterVars == <<fiter, fyield>>

vars == <<streamVars, buildVars, parseVars, scanVars, apiVars, iterVars>>

notStream == <<buildVars, parseVars, scanVars, apiVars, iterVars>>

notBuild == <<streamVars, parseVars, scanVars, apiVars, iterVars>>

notParse == <<streamVars, buildVars, scanVars, apiVars, iterVars>>

notScan == <<streamVars, buildVars, parseVars, apiVars, iterVars>>

notApi == <<streamVars, buildVars, parseVars, scanVars, iterVars>>

notIter == <<streamVars, buildVars, parseVars, scanVars, apiVars>>

\* ------------------------------------------------------------------------
\* Bounds
\* ------------------------------------------------------------------------

\* Number of calls made on one StreamingDdexBuilder.
MaxCalls == 7

\* Number of releases, and of resources, stored in one builder.
MaxStored == 1

\* Number of build calls made on one builder.
MaxBuilds == 2

\* Number of fragments the scanned buffer is made of.
MaxFrags == 3

\* Number of tokens an xml argument is made of.
MaxTokens == 3

\* Number of next() calls made on one ReleaseStream.
MaxNext == 5

\* Number of elements a FastStreamingIterator is created with.
MaxElements == 2

\* Number of next() calls made on one FastStreamingIterator.
MaxIterNext == 4

\* ------------------------------------------------------------------------
\* Option values
\* ------------------------------------------------------------------------

None == [some |-> FALSE]

Some(x) == [some |-> TRUE, val |-> x]

IsSome(o) == o.some

\* ------------------------------------------------------------------------
\* ddex_builder::streaming::StreamingBuilder (the wrapped builder).
\* Its phases are Started -> InResources -> InReleases -> Finished and an
\* operation called in the wrong phase is a PhaseError.  The writer is the
\* Cursor the builder was created with; every emitted unit is one element.
\* ------------------------------------------------------------------------

SupportedVersions == {"3.8.2", "4.2", "4.3"}

\* StreamingBuilder::new_with_config(writer, config)
SB_new_with_config(writer) ==
    [phase |-> "Created", writer |-> writer,
     resources_written |-> 0, releases_written |-> 0]

\* StreamingBuilder::start_message(&header, &version)
SB_start_message(b, version) ==
    IF b.phase = "Created" /\ version \in SupportedVersions
    THEN [ok |-> TRUE,
          b |-> [b EXCEPT !.phase = "Started",
                          !.writer = Append(b.writer, "MessageHeader")]]
    ELSE [ok |-> FALSE, b |-> b]

\* StreamingBuilder::write_resource(...)
SB_write_resource(b, resource_id) ==
    IF b.phase \in {"Started", "InResources"}
    THEN [ok |-> TRUE,
          b |-> [b EXCEPT !.phase = "InResources",
                          !.writer = Append(b.writer, resource_id),
                          !.resources_written = b.resources_written + 1]]
    ELSE [ok |-> FALSE, b |-> b]

\* StreamingBuilder::finish_resources_start_releases()
SB_finish_resources_start_releases(b) ==
    IF b.phase \in {"Started", "InResources"}
    THEN [ok |-> TRUE,
          b |-> [b EXCEPT !.phase = "InReleases",
                          !.writer = Append(b.writer, "ReleaseList")]]
    ELSE [ok |-> FALSE, b |-> b]

\* StreamingBuilder::write_release(...)
SB_write_release(b, release_id) ==
    IF b.phase = "InReleases"
    THEN [ok |-> TRUE,
          b |-> [b EXCEPT !.writer = Append(b.writer, release_id),
                          !.releases_written = b.releases_written + 1]]
    ELSE [ok |-> FALSE, b |-> b]

\* StreamingBuilder::finish_message() -> stats
SB_finish_message(b) ==
    IF b.phase = "InReleases"
    THEN [ok |-> TRUE,
          b |-> [b EXCEPT !.phase = "Finished",
                          !.writer = Append(b.writer, "End")]]
    ELSE [ok |-> FALSE, b |-> b]

\* stats.bytes_written of a finished builder
SB_bytes_written(b) == Len(b.writer)

\* ------------------------------------------------------------------------
\* StreamingDdexBuilder (ddex-builder/bindings/node/src/lib.rs)
\* ------------------------------------------------------------------------

Versions == {"4.3", "9.9"}

ResourceIds == {"A1"}

ReleaseIds == {"R1"}

\* A returned value: Ok(...) or Err(...)
Ret(op, ok, xml, bytes) == [op |-> op, ok |-> ok, xml |-> xml, bytes_written |-> bytes]

\* start_message(header, version)
start_message ==
    /\ ncalls < MaxCalls
    /\ \E version \in Versions :
        \* self.buffer = Cursor::new(Vec::new());
        \* new_with_config(mem::replace(&mut self.buffer, Cursor::new(Vec::new())), ..)
        LET moved == <<>>
            streaming_builder == SB_new_with_config(moved)
            r == SB_start_message(streaming_builder, version)
        IN  /\ buffer' = <<>>
            /\ IF r.ok
               THEN /\ inner' = Some(r.b)
                    /\ sret' = Ret("start_message", TRUE, <<>>, 0)
               ELSE /\ inner' = inner
                    /\ sret' = Ret("start_message", FALSE, <<>>, 0)
    /\ ncalls' = ncalls + 1
    /\ UNCHANGED notStream

\* write_resource that starts a message of its own when none is in progress
write_resource_autostart ==
    /\ ncalls < MaxCalls
    /\ \E resource_id \in ResourceIds :
        LET b0 == IF IsSome(inner) THEN inner.val
                  ELSE SB_start_message(SB_new_with_config(<<>>), "4.3").b
            r == SB_write_resource(b0, resource_id)
        IN  /\ inner' = Some(r.b)
            /\ sret' = Ret("write_resource", r.ok, <<>>, 0)
            /\ UNCHANGED buffer
    /\ ncalls' = ncalls + 1
    /\ UNCHANGED notStream

\* write_resource(resource_id, ...)
write_resource ==
    /\ ncalls < MaxCalls
    /\ \E resource_id \in ResourceIds :
        IF ~IsSome(inner)
        THEN /\ sret' = Ret("write_resource", FALSE, <<>>, 0)
             /\ UNCHANGED <<inner, buffer>>
        ELSE LET r == SB_write_resource(inner.val, resource_id)
             IN  /\ inner' = Some(r.b)
                 /\ sret' = Ret("write_resource", r.ok, <<>>, 0)
                 /\ UNCHANGED buffer
    /\ ncalls' = ncalls + 1
    /\ UNCHANGED notStream

\* finish_resources_start_releases()
finish_resources_start_releases ==
    /\ ncalls < MaxCalls
    /\ IF ~IsSome(inner)
       THEN /\ sret' = Ret("finish_resources_start_releases", FALSE, <<>>, 0)
            /\ UNCHANGED <<inner, buffer>>
       ELSE LET r == SB_finish_resources_start_releases(inner.val)
            IN  /\ inner' = Some(r.b)
                /\ sret' = Ret("finish_resources_start_releases", r.ok, <<>>, 0)
                /\ UNCHANGED buffer
    /\ ncalls' = ncalls + 1
    /\ UNCHANGED notStream

\* write_release(release_id, ...)
write_release ==
    /\ ncalls < MaxCalls
    /\ \E release_id \in ReleaseIds :
        IF ~IsSome(inner)
        THEN /\ sret' = Ret("write_release", FALSE, <<>>, 0)
             /\ UNCHANGED <<inner, buffer>>
        ELSE LET r == SB_write_release(inner.val, release_id)
             IN  /\ inner' = Some(r.b)
                 /\ sret' = Ret("write_release", r.ok, <<>>, 0)
                 /\ UNCHANGED buffer
    /\ ncalls' = ncalls + 1
    /\ UNCHANGED notStream

\* finish_message that puts the builder back when finishing fails
finish_message_keep_on_error ==
    /\ ncalls < MaxCalls
    /\ IF ~IsSome(inner)
       THEN /\ sret' = Ret("finish_message", FALSE, <<>>, 0)
            /\ UNCHANGED <<inner, buffer>>
       ELSE LET r == SB_finish_message(inner.val)
            IN  /\ inner' = IF r.ok THEN None ELSE inner
                /\ sret' = IF r.ok
                           THEN Ret("finish_message", TRUE, <<>>, SB_bytes_written(r.b))
                           ELSE Ret("finish_message", FALSE, <<>>, 0)
                /\ UNCHANGED buffer
    /\ ncalls' = ncalls + 1
    /\ UNCHANGED notStream

\* finish_message(): self.inner.take(), then builder.finish_message()
finish_message ==
    /\ ncalls < MaxCalls
    /\ IF ~IsSome(inner)
       THEN /\ sret' = Ret("finish_message", FALSE, <<>>, 0)
            /\ UNCHANGED <<inner, buffer>>
       ELSE LET r == SB_finish_message(inner.val)
            IN  /\ inner' = None
                /\ sret' = IF r.ok
                           THEN Ret("finish_message", TRUE, <<>>, SB_bytes_written(r.b))
                           ELSE Ret("finish_message", FALSE, <<>>, 0)
                /\ UNCHANGED buffer
    /\ ncalls' = ncalls + 1
    /\ UNCHANGED notStream

\* get_xml(): the bytes of self.buffer
get_xml ==
    /\ ncalls < MaxCalls
    /\ IF IsSome(inner)
       THEN sret' = Ret("get_xml", FALSE, <<>>, 0)
       ELSE sret' = Ret("get_xml", TRUE, buffer, 0)
    /\ UNCHANGED <<inner, buffer>>
    /\ ncalls' = ncalls + 1
    /\ UNCHANGED notStream

\* reset()
stream_reset ==
    /\ ncalls < MaxCalls
    /\ inner' = None
    /\ buffer' = <<>>
    /\ sret' = Ret("reset", TRUE, <<>>, 0)
    /\ ncalls' = ncalls + 1
    /\ UNCHANGED notStream

StreamNext ==
    \/ start_message
    \/ write_resource
    \/ finish_resources_start_releases
    \/ write_release
    \/ finish_message
    \/ get_xml
    \/ stream_reset

\* ------------------------------------------------------------------------
\* DdexBuilder (ddex-builder/bindings/node/src/lib.rs) and
\* WasmDdexBuilder (ddex-builder/bindings/wasm/src/lib.rs)
\* ------------------------------------------------------------------------

\* The build calls that may be in flight on one builder (napi runs an
\* async fn on the tokio runtime: two calls run on two worker threads).
Tasks == 1 .. MaxBuilds

\* Release { release_id, track_ids, .. }
ReleaseValues ==
    {[release_id |-> "R1", track_ids |-> <<"A1">>],
     [release_id |-> "R2", track_ids |-> <<>>]}

\* Resource { resource_id, isrc, duration, .. }
ResourceValues ==
    {[resource_id |-> "A1", isrc |-> None, duration |-> None],
     [resource_id |-> "A1", isrc |-> Some("ISRC1"), duration |-> None]}

\* uuid::Uuid::new_v4()
Uuids == {"uuid-a", "uuid-b"}

\* chrono::Utc::now().to_rfc3339()  (two calls differ in their uuid already)
Timestamps == {"t1"}

\* start_time.elapsed().as_millis()
ElapsedMs == {0, 1}

\* data: Option<serde_json::Value>
DataInputs ==
    {None,
     Some([is_object |-> FALSE, version |-> None, releases |-> <<>>]),
     Some([is_object |-> TRUE, version |-> None, releases |-> <<"R1">>]),
     Some([is_object |-> TRUE, version |-> Some("9.9"), releases |-> <<"R1">>])}

\* get_available_presets()
AvailablePresets ==
    {"spotify_album", "spotify_single", "spotify_ep", "youtube_album",
     "youtube_video", "youtube_single", "apple_music_43"}

\* the names get_preset_info matches
PresetInfoNames == {"spotify_album", "spotify_single", "youtube_video"}

\* preset names the model passes to apply_preset
PresetInputs == {"spotify_album", "spotify_ep", "no_such_preset"}

\* BuilderStats of a new builder
NewStats ==
    [releases_count |-> 0, resources_count |-> 0,
     total_build_time_ms |-> 0, last_build_size_bytes |-> 0,
     validation_errors |-> 0, validation_warnings |-> 0]

\* Vec::contains
Contains(s, x) == \E i \in DOMAIN s : s[i] = x

\* Vec::is_empty
IsEmpty(s) == Len(s) = 0

\* resource.isrc.clone().unwrap_or_else(|| "TEMP00000000")
TrackIsrc(resource) ==
    IF IsSome(resource.isrc) THEN resource.isrc.val ELSE "TEMP00000000"

\* resource.duration.clone().unwrap_or_else(|| "PT3M00S")
TrackDuration(resource) ==
    IF IsSome(resource.duration) THEN resource.duration.val ELSE "PT3M00S"

\* the tracks of one release: the stored resources its track_ids contain
TracksOf(release, ress) ==
    LET sel == SelectSeq(ress, LAMBDA r : Contains(release.track_ids, r.resource_id))
    IN  [j \in DOMAIN sel |->
            [track_id |-> sel[j].resource_id,
             resource_reference |-> Some(sel[j].resource_id),
             isrc |-> TrackIsrc(sel[j]),
             duration |-> TrackDuration(sel[j])]]

\* create_build_request_from_stored_data(&self)
create_build_request_from_stored_data(rels, ress, uuid, now) ==
    [ok |-> TRUE,
     req |-> [header |-> [message_id |-> Some(uuid),
                          message_created_date_time |-> Some(now)],
              version |-> "4.3",
              releases |-> [i \in DOMAIN rels |->
                  [release_id |-> rels[i].release_id,
                   tracks |-> TracksOf(rels[i], ress),
                   resource_references |-> Some(rels[i].track_ids)]]]]

\* create_build_request_from_json(&self, data)
create_build_request_from_json(json, uuid, now) ==
    IF ~json.is_object
    THEN [ok |-> FALSE, req |-> None]
    ELSE [ok |-> TRUE,
          req |-> [header |-> [message_id |-> Some(uuid),
                               message_created_date_time |-> Some(now)],
                   version |-> IF IsSome(json.version) THEN json.version.val ELSE "4.3",
                   releases |-> [i \in DOMAIN json.releases |->
                       [release_id |-> json.releases[i],
                        tracks |-> <<>>,
                        resource_references |-> None]]]]

RECURSIVE RenderTracks(_)
\* the emitted tracks of a release request
RenderTracks(tracks) ==
    IF tracks = <<>> THEN <<>>
    ELSE <<"Track", Head(tracks).track_id, "ISRC", Head(tracks).isrc,
           "Duration", Head(tracks).duration>> \o RenderTracks(Tail(tracks))

RECURSIVE RenderReleases(_)
\* the emitted releases of a build request
RenderReleases(rels) ==
    IF rels = <<>> THEN <<>>
    ELSE <<"Release", Head(rels).release_id>> \o RenderTracks(Head(rels).tracks)
            \o RenderReleases(Tail(rels))

\* ddex_builder::builder::DDEXBuilder::build(request, BuildOptions::default()):
\* a function of the request; the default options carry no preset.
DB_build(req) ==
    IF req.version \in SupportedVersions
    THEN [ok |-> TRUE,
          xml |-> <<"MessageId", req.header.message_id.val,
                    "MessageCreatedDateTime", req.header.message_created_date_time.val>>
                  \o RenderReleases(req.releases)]
    ELSE [ok |-> FALSE, xml |-> <<>>]

RECURSIVE PlaceholderReleases(_)
\* generate_placeholder_xml: the loop over self.releases
PlaceholderReleases(rels) ==
    IF rels = <<>> THEN <<>>
    ELSE <<"ReleaseList", "Release", "ReleaseId", Head(rels).release_id>>
            \o PlaceholderReleases(Tail(rels))

RECURSIVE PlaceholderResources(_)
\* generate_placeholder_xml: the loop over self.resources
PlaceholderResources(ress) ==
    IF ress = <<>> THEN <<>>
    ELSE <<"ResourceList", "SoundRecording", "ResourceId", Head(ress).resource_id>>
            \o (IF IsSome(Head(ress).isrc) THEN <<"ISRC", Head(ress).isrc.val>> ELSE <<>>)
            \o PlaceholderResources(Tail(ress))

\* WasmDdexBuilder::generate_placeholder_xml(&self)
generate_placeholder_xml(rels, ress, uuid, now) ==
    <<"NewReleaseMessage", "MessageHeader", "MessageId", uuid,
      "MessageCreatedDateTime", now>>
        \o PlaceholderReleases(rels) \o PlaceholderResources(ress)

\* a build call that is not running
IdleTask ==
    [pc |-> "idle", ok |-> FALSE, xml |-> <<>>, tmp |-> 0, elapsed |-> 0,
     rels |-> <<>>, ress |-> <<>>, data |-> None, preset |-> None]

\* no build call is between its start and its return
NoBuildInFlight == \A t \in Tasks : task[t].pc \in {"idle", "done"}

\* add_release that leaves the count as it was
add_release_uncounted ==
    /\ NoBuildInFlight
    /\ nbuilds = 0
    /\ Len(releases) < MaxStored
    /\ \E release \in ReleaseValues :
        /\ releases' = Append(releases, release)
        /\ stats' = stats
    /\ UNCHANGED <<kind, resources, task, applied, bret, nbuilds>>
    /\ UNCHANGED notBuild

\* add_release(release)  (callers store their data before the first build)
add_release ==
    /\ NoBuildInFlight
    /\ nbuilds = 0
    /\ Len(releases) < MaxStored
    /\ \E release \in ReleaseValues :
        /\ releases' = Append(releases, release)
        /\ stats' = [stats EXCEPT !.releases_count = Len(releases')]
    /\ UNCHANGED <<kind, resources, task, applied, bret, nbuilds>>
    /\ UNCHANGED notBuild

\* add_resource(resource)
add_resource ==
    /\ NoBuildInFlight
    /\ nbuilds = 0
    /\ Len(resources) < MaxStored
    /\ \E resource \in ResourceValues :
        /\ resources' = Append(resources, resource)
        /\ stats' = [stats EXCEPT !.resources_count = Len(resources')]
    /\ UNCHANGED <<kind, releases, task, applied, bret, nbuilds>>
    /\ UNCHANGED notBuild

\* the names get_preset_validation_rules matches
PresetRuleNames == {"spotify_album", "spotify_single", "youtube_video", "youtube_album"}

\* get_preset_validation_rules(preset_name): Ok for the names it matches
get_preset_validation_rules_ok(preset_name) == preset_name \in PresetRuleNames

\* get_preset_info(preset_name): Ok for the names it matches
get_preset_info_ok(preset_name) == preset_name \in PresetInfoNames

\* apply_preset(preset_name): checks the name, stores nothing
apply_preset ==
    /\ NoBuildInFlight
    /\ nbuilds = 0
    /\ \E preset_name \in PresetInputs :
        IF get_preset_info_ok(preset_name)
        THEN /\ bret' = [op |-> "apply_preset", ok |-> TRUE, preset_name |-> preset_name]
             /\ applied' = Some(preset_name)
        ELSE /\ bret' = [op |-> "apply_preset", ok |-> FALSE, preset_name |-> preset_name]
             /\ applied' = applied
    /\ UNCHANGED <<kind, releases, resources, stats, task, nbuilds>>
    /\ UNCHANGED notBuild

\* validate()
validate ==
    /\ NoBuildInFlight
    /\ bret' = [op |-> "validate", ok |-> ~IsEmpty(releases)]
    /\ UNCHANGED <<kind, releases, resources, stats, task, applied, nbuilds>>
    /\ UNCHANGED notBuild

\* reset()
builder_reset ==
    /\ NoBuildInFlight
    /\ releases' = <<>>
    /\ resources' = <<>>
    /\ stats' = NewStats
    /\ applied' = None
    /\ UNCHANGED <<kind, task, bret, nbuilds>>
    /\ UNCHANGED notBuild

\* a build call that clears last_build_size_bytes when it fails
build_begin_clearing(t) ==
    /\ kind = "node"
    /\ nbuilds < MaxBuilds
    /\ task[t].pc = "idle"
    /\ \E data \in DataInputs, uuid \in Uuids, now \in Timestamps :
        LET cr == IF IsSome(data)
                  THEN create_build_request_from_json(data.val, uuid, now)
                  ELSE create_build_request_from_stored_data(releases, resources, uuid, now)
            r == IF cr.ok THEN DB_build(cr.req) ELSE [ok |-> FALSE, xml |-> <<>>]
            started == [IdleTask EXCEPT !.rels = releases, !.ress = resources,
                                        !.data = data, !.preset = applied]
        IN  /\ task' = [task EXCEPT ![t] =
                    IF r.ok THEN [started EXCEPT !.pc = "built", !.xml = r.xml]
                    ELSE [started EXCEPT !.pc = "done", !.ok = FALSE]]
            /\ stats' = IF r.ok THEN stats
                        ELSE [stats EXCEPT !.last_build_size_bytes = 0]
    /\ nbuilds' = nbuilds + 1
    /\ UNCHANGED <<kind, releases, resources, applied, bret>>
    /\ UNCHANGED notBuild

\* DdexBuilder::build / build_with_fidelity, up to the `?` after
\* builder.build(build_request, options)
build_begin(t) ==
    /\ kind = "node"
    /\ nbuilds < MaxBuilds
    /\ task[t].pc = "idle"
    /\ \E data \in DataInputs, uuid \in Uuids, now \in Timestamps :
        LET cr == IF IsSome(data)
                  THEN create_build_request_from_json(data.val, uuid, now)
                  ELSE create_build_request_from_stored_data(releases, resources, uuid, now)
            r == IF cr.ok THEN DB_build(cr.req) ELSE [ok |-> FALSE, xml |-> <<>>]
            started == [IdleTask EXCEPT !.rels = releases, !.ress = resources,
                                        !.data = data, !.preset = applied]
        IN  task' = [task EXCEPT ![t] =
                IF r.ok THEN [started EXCEPT !.pc = "built", !.xml = r.xml]
                ELSE [started EXCEPT !.pc = "done", !.ok = FALSE]]
    /\ nbuilds' = nbuilds + 1
    /\ UNCHANGED <<kind, releases, resources, stats, applied, bret>>
    /\ UNCHANGED notBuild

\* self.stats.last_build_size_bytes = result.xml.len() as f64;
build_store_size(t) ==
    /\ task[t].pc = "built"
    /\ stats' = [stats EXCEPT !.last_build_size_bytes = Len(task[t].xml)]
    /\ task' = [task EXCEPT ![t].pc = "sized"]
    /\ UNCHANGED <<kind, releases, resources, applied, bret, nbuilds>>
    /\ UNCHANGED notBuild

\* self.stats.total_build_time_ms += elapsed: the load
build_load_total(t) ==
    /\ task[t].pc = "sized"
    /\ \E elapsed \in ElapsedMs :
        task' = [task EXCEPT ![t].pc = "loaded",
                             ![t].tmp = stats.total_build_time_ms,
                             ![t].elapsed = elapsed]
    /\ UNCHANGED <<kind, releases, resources, stats, applied, bret, nbuilds>>
    /\ UNCHANGED notBuild

\* self.stats.total_build_time_ms += elapsed: the store, then Ok(result.xml)
build_store_total(t) ==
    /\ task[t].pc = "loaded"
    /\ stats' = [stats EXCEPT !.total_build_time_ms = task[t].tmp + task[t].elapsed]
    /\ task' = [task EXCEPT ![t].pc = "done", ![t].ok = TRUE]
    /\ UNCHANGED <<kind, releases, resources, applied, bret, nbuilds>>
    /\ UNCHANGED notBuild

\* WasmDdexBuilder::build (single-threaded, no await inside: one step)
wasm_build ==
    /\ kind = "wasm"
    /\ nbuilds < MaxBuilds
    /\ \E uuid \in Uuids, now \in Timestamps, build_time \in ElapsedMs :
        LET xml_output == generate_placeholder_xml(releases, resources, uuid, now)
        IN  /\ stats' = [stats EXCEPT
                  !.last_build_size_bytes = Len(xml_output),
                  !.total_build_time_ms = stats.total_build_time_ms + build_time]
            /\ task' = [task EXCEPT ![nbuilds + 1] =
                  [IdleTask EXCEPT !.pc = "done", !.ok = TRUE,
                                   !.xml = xml_output, !.elapsed = build_time,
                                   !.tmp = stats.total_build_time_ms,
                                   !.rels = releases, !.ress = resources,
                                   !.preset = applied]]
    /\ nbuilds' = nbuilds + 1
    /\ UNCHANGED <<kind, releases, resources, applied, bret>>
    /\ UNCHANGED notBuild

\* one build call at a time: each call is awaited before the next call
BuildNext ==
    \/ add_release
    \/ add_resource
    \/ apply_preset
    \/ validate
    \/ builder_reset
    \/ (NoBuildInFlight /\ build_begin(nbuilds + 1))
    \/ \E t \in Tasks : build_store_size(t)
    \/ \E t \in Tasks : build_load_total(t)
    \/ \E t \in Tasks : build_store_total(t)
    \/ wasm_build

\* build calls made without awaiting the previous one
RaceNext ==
    \/ \E t \in Tasks : build_begin(t)
    \/ \E t \in Tasks : build_store_size(t)
    \/ \E t \in Tasks : build_load_total(t)
    \/ \E t \in Tasks : build_store_total(t)

\* ------------------------------------------------------------------------
\* DdexParser (ddex-parser/bindings/node/src/lib.rs),
\* DDEXParser (ddex-parser/bindings/wasm/src/lib.rs) and the core
\* DDEXParser::parse (ddex-parser/src/lib.rs)
\* ------------------------------------------------------------------------

\* xml.len() > 100_000_000
MaxXmlBytes == 100000000

\* An XML document: its length in bytes, whether it is well-formed, and
\* what it holds.  A release carries the reference tokens of its resources.
Docs ==
    {[len |-> 0, well_formed |-> FALSE, releases |-> <<>>, resources |-> <<>>, deals |-> <<>>],
     [len |-> 9, well_formed |-> FALSE, releases |-> <<>>, resources |-> <<>>, deals |-> <<>>],
     [len |-> 100000001, well_formed |-> TRUE, releases |-> <<>>, resources |-> <<"A1">>, deals |-> <<>>],
     [len |-> 40, well_formed |-> TRUE, releases |-> <<>>, resources |-> <<>>, deals |-> <<>>],
     [len |-> 60, well_formed |-> TRUE, releases |-> <<>>, resources |-> <<"A1">>, deals |-> <<>>],
     [len |-> 60, well_formed |-> TRUE, releases |-> <<>>, resources |-> <<>>, deals |-> <<"D1">>],
     [len |-> 90, well_formed |-> TRUE, releases |-> <<<<"A1">>>>, resources |-> <<"A1">>, deals |-> <<>>],
     [len |-> 70, well_formed |-> TRUE, releases |-> <<<<"A1">>>>, resources |-> <<>>, deals |-> <<>>]}

\* options: Option<ParseOptions>
OptionInputs ==
    {None} \cup
    {Some([resolve_references |-> rr,
           fidelity_level |-> fl,
           preserve_comments |-> pf,
           preserve_processing_instructions |-> pf,
           preserve_attribute_order |-> pf,
           preserve_namespace_prefixes |-> pf]) :
        rr \in {None, Some(TRUE), Some(FALSE)},
        fl \in {None, Some("perfect"), Some("fast")},
        pf \in {None, Some(TRUE), Some(FALSE)}}

\* parser::ParseOptions::default()
DefaultParseOptions == [resolve_references |-> TRUE]

\* a release of the document carries a token that matches no resource
HasDanglingReference(doc) ==
    \E i \in DOMAIN doc.releases : \E k \in DOMAIN doc.releases[i] :
        ~Contains(doc.resources, doc.releases[i][k])

\* parser::parse(reader, options, &self.config)
CoreParse(doc, options) ==
    IF ~doc.well_formed
    THEN [ok |-> FALSE, error |-> "XmlError", flat |-> None]
    ELSE IF options.resolve_references /\ HasDanglingReference(doc)
    THEN [ok |-> FALSE, error |-> "MissingReference", flat |-> None]
    ELSE [ok |-> TRUE, error |-> "",
          flat |-> Some([releases |-> doc.releases, resources |-> doc.resources,
                         deals |-> doc.deals])]

\* DDEXParser::parse(reader): parse_with_options(reader, Default::default())
DDEXParser_parse(doc) == CoreParse(doc, DefaultParseOptions)

\* a result of a parser call: Ok(message) or Err(error)
ParseErr(error) == [ok |-> FALSE, error |-> error, async_note |-> FALSE, message |-> None]

\* Option::unwrap_or
unwrap_or(o, default) == IF IsSome(o) THEN o.val ELSE default

\* convert_parsed_message(parsed, options)
convert_parsed_message(flat, options) ==
    [release_count |-> Len(flat.releases),
     resource_count |-> Len(flat.resources),
     deal_count |-> Len(flat.deals),
     fidelity_info |->
        IF IsSome(options)
        THEN Some([fidelity_level |->
                    IF IsSome(options.val.fidelity_level)
                    THEN options.val.fidelity_level.val ELSE "balanced",
                   comments_preserved |->
                    unwrap_or(options.val.preserve_comments, FALSE),
                   processing_instructions_preserved |->
                    unwrap_or(options.val.preserve_processing_instructions, FALSE),
                   attribute_order_preserved |->
                    unwrap_or(options.val.preserve_attribute_order, TRUE),
                   namespace_prefixes_preserved |->
                    unwrap_or(options.val.preserve_namespace_prefixes, TRUE)])
        ELSE None]

\* the no-data test with the deals condition negated
NoMeaningfulData_deals_negated(flat) ==
    IsEmpty(flat.releases) /\ IsEmpty(flat.resources) /\ ~IsEmpty(flat.deals)

\* parse_sync: releases, resources and deals are all empty
NoMeaningfulData(flat) ==
    IsEmpty(flat.releases) /\ IsEmpty(flat.resources) /\ IsEmpty(flat.deals)

\* DdexParser::parse_sync(xml, options)
parse_sync_result(doc, options) ==
    IF doc.len = 0 THEN ParseErr("EmptyInput")
    ELSE IF doc.len > MaxXmlBytes THEN ParseErr("TooLarge")
    ELSE LET r == DDEXParser_parse(doc)
         IN  IF r.ok
             THEN IF NoMeaningfulData(r.flat.val)
                  THEN ParseErr("NoData")
                  ELSE [ok |-> TRUE, error |-> "", async_note |-> FALSE,
                        message |-> Some(convert_parsed_message(r.flat.val, options))]
             ELSE ParseErr(r.error)

\* DdexParser::parse(xml, options)
parse_result(doc, options) ==
    IF doc.len = 0 THEN ParseErr("EmptyInput")
    ELSE LET r == parse_sync_result(doc, options)
         IN  IF r.ok THEN r ELSE [r EXCEPT !.async_note = TRUE]

\* DDEXParser::parse(xml, _options) of the wasm binding
wasm_parse_result(doc, options) ==
    LET r == DDEXParser_parse(doc)
    IN  IF r.ok
        THEN [ok |-> TRUE, error |-> "", async_note |-> FALSE,
              message |-> Some(convert_parsed_message(r.flat.val, None))]
        ELSE ParseErr(r.error)

\* no parser call made yet
NoCall == [op |-> "new", doc |-> None, options |-> None]

\* the parser, before any call
ParseIdle ==
    /\ pin = NoCall
    /\ pret = ParseErr("")

\* a call of parse_sync
parse_sync ==
    /\ \E doc \in Docs, options \in OptionInputs :
        /\ pin' = [op |-> "parse_sync", doc |-> Some(doc), options |-> options]
        /\ pret' = parse_sync_result(doc, options)
    /\ UNCHANGED notParse

\* a call of parse
parse ==
    /\ \E doc \in Docs, options \in OptionInputs :
        /\ pin' = [op |-> "parse", doc |-> Some(doc), options |-> options]
        /\ pret' = parse_result(doc, options)
    /\ UNCHANGED notParse

\* a call of the wasm binding's parse
wasm_parse ==
    /\ \E doc \in Docs, options \in OptionInputs :
        /\ pin' = [op |-> "wasm_parse", doc |-> Some(doc), options |-> options]
        /\ pret' = wasm_parse_result(doc, options)
    /\ UNCHANGED notParse

ParseNext ==
    \/ parse_sync
    \/ parse
    \/ wasm_parse

\* ------------------------------------------------------------------------
\* FastStreamingParser (ddex-parser/src/streaming/fast_streaming_parser.rs)
\* Bytes are one-character strings; positions count from 0 as in the code.
\* ------------------------------------------------------------------------

\* data.len() < 8
MinTagBytes == 8

\* data.len().min(50)
TagSearchLimit == 50

\* the pieces the scanned buffers are made of
Fragments ==
    {<<"<", "R", "e", "l", "e", "a", "s", "e", ">">>,
     <<"<", "/", "R", "e", "l", "e", "a", "s", "e", ">">>,
     <<"<", "/", "e", "r", "n", ":", "R", "e", "l", "e", "a", "s", "e", ">">>,
     <<"<", "R", "e", "l", "e", "a", "s", "e", "L", "i", "s", "t", ">">>,
     <<"<", "/", "R", "e", "l", "e", "a", "s", "e", "L", "i", "s", "t", ">">>,
     <<"<", "R", "e", "l", "e", "a", "s", "e", ">", "x", "<", "/", "R", "e", "l", "e", "a", "s", "e", ">">>,
     <<"<", "D", "e", "a", "l", ">", "x", "<", "/", "D", "e", "a", "l", ">">>,
     <<"<", "a", ":", "b", "/", ">">>,
     <<"<", "/", "b", ">">>,
     <<"<", "M", ">">>,
     <<"<", "/", "M", ">">>,
     <<"x">>,
     <<"<">>}

RECURSIVE Buffers(_)
\* the concatenations of at most n fragments
Buffers(n) ==
    IF n = 0 THEN {<<>>}
    ELSE LET shorter == Buffers(n - 1)
         IN  shorter \cup {b \o f : b \in shorter, f \in Fragments}

\* the buffers read_to_end may deliver
InputBuffers == Buffers(MaxFrags)

\* config.progress_interval, config.max_memory and progress_callback.is_some()
ScanConfigs ==
    {[has_callback |-> FALSE, progress_interval |-> 0, max_memory |-> 10,
      enable_progress |-> FALSE],
     [has_callback |-> TRUE, progress_interval |-> 0, max_memory |-> 1000,
      enable_progress |-> FALSE],
     [has_callback |-> TRUE, progress_interval |-> 12, max_memory |-> 1000,
      enable_progress |-> TRUE]}

\* a.min(b)
Min(a, b) == IF a <= b THEN a ELSE b

\* &buf[a..b]
Slice(buf, a, b) == SubSeq(buf, a + 1, b)

\* name.starts_with(prefix)
StartsWith(name, prefix) ==
    /\ Len(name) >= Len(prefix)
    /\ SubSeq(name, 1, Len(prefix)) = prefix

\* the least member of a non-empty set of numbers
Least(S) == CHOOSE x \in S : \A y \in S : x <= y

\* memchr(byte, data)
memchr(byte, data) ==
    LET hits == {i \in 0 .. Len(data) - 1 : data[i + 1] = byte}
    IN  IF hits = {} THEN None ELSE Some(Least(hits))

\* find_pattern_after(data, pattern): memmem::find
find_pattern_after(data, pattern) ==
    LET hits == {i \in 0 .. Len(data) - Len(pattern) :
                    SubSeq(data, i + 1, i + Len(pattern)) = pattern}
    IN  IF hits = {} THEN None ELSE Some(Least(hits))

\* b == b' ' || b == b'>' || b == b'/' || b == b'\t' || b == b'\n' || b == b'\r'
IsBoundary(b) == b \in {" ", ">", "/", "\t", "\n", "\r"}

\* FastElementType
ElementType(variant, name) == [kind |-> variant, name |-> name]

\* detect_element_type_from_bytes(data)
detect_element_type_from_bytes(data) ==
    IF Len(data) < MinTagBytes \/ data[1] # "<" THEN None
    ELSE
        LET search_end == Min(Len(data), TagSearchLimit)
            window == Slice(data, 1, search_end)
            hits == {i \in 0 .. Len(window) - 1 : IsBoundary(window[i + 1])}
        IN  IF hits = {} THEN None
            ELSE
                LET boundary_pos == Least(hits)
                    tag_name == Slice(data, 1, boundary_pos + 1)
                IN  IF StartsWith(tag_name, <<"R", "e", "l", "e", "a", "s", "e">>)
                        \/ StartsWith(tag_name, <<"e", "r", "n", ":", "R", "e", "l", "e", "a", "s", "e">>)
                    THEN Some(ElementType("Release", <<>>))
                    ELSE IF StartsWith(tag_name, <<"R", "e", "s", "o", "u", "r", "c", "e">>)
                        \/ StartsWith(tag_name, <<"e", "r", "n", ":", "R", "e", "s", "o", "u", "r", "c", "e">>)
                        \/ StartsWith(tag_name, <<"S", "o", "u", "n", "d", "R", "e", "c", "o", "r", "d", "i", "n", "g">>)
                        \/ StartsWith(tag_name, <<"e", "r", "n", ":", "S", "o", "u", "n", "d", "R", "e", "c", "o", "r", "d", "i", "n", "g">>)
                    THEN Some(ElementType("Resource", <<>>))
                    ELSE IF StartsWith(tag_name, <<"P", "a", "r", "t", "y">>)
                        \/ StartsWith(tag_name, <<"e", "r", "n", ":", "P", "a", "r", "t", "y">>)
                    THEN Some(ElementType("Party", <<>>))
                    ELSE IF StartsWith(tag_name, <<"D", "e", "a", "l">>)
                        \/ StartsWith(tag_name, <<"e", "r", "n", ":", "D", "e", "a", "l">>)
                    THEN Some(ElementType("Deal", <<>>))
                    ELSE IF StartsWith(tag_name, <<"M", "e", "s", "s", "a", "g", "e", "H", "e", "a", "d", "e", "r">>)
                        \/ StartsWith(tag_name, <<"e", "r", "n", ":", "M", "e", "s", "s", "a", "g", "e", "H", "e", "a", "d", "e", "r">>)
                    THEN Some(ElementType("MessageHeader", <<>>))
                    ELSE Some(ElementType("Other", tag_name))

\* the closing patterns of the known element types
ClosingPatterns(variant) ==
    IF variant = "Release" THEN {<<"<", "/", "e", "r", "n", ":", "R", "e", "l", "e", "a", "s", "e", ">">>, <<"<", "/", "R", "e", "l", "e", "a", "s", "e", ">">>}
    ELSE IF variant = "Resource"
    THEN {<<"<", "/", "e", "r", "n", ":", "R", "e", "s", "o", "u", "r", "c", "e", ">">>, <<"<", "/", "R", "e", "s", "o", "u", "r", "c", "e", ">">>,
          <<"<", "/", "e", "r", "n", ":", "S", "o", "u", "n", "d", "R", "e", "c", "o", "r", "d", "i", "n", "g", ">">>, <<"<", "/", "S", "o", "u", "n", "d", "R", "e", "c", "o", "r", "d", "i", "n", "g", ">">>}
    ELSE IF variant = "Party" THEN {<<"<", "/", "e", "r", "n", ":", "P", "a", "r", "t", "y", ">">>, <<"<", "/", "P", "a", "r", "t", "y", ">">>}
    ELSE IF variant = "Deal" THEN {<<"<", "/", "e", "r", "n", ":", "D", "e", "a", "l", ">">>, <<"<", "/", "D", "e", "a", "l", ">">>}
    ELSE {<<"<", "/", "e", "r", "n", ":", "M", "e", "s", "s", "a", "g", "e", "H", "e", "a", "d", "e", "r", ">">>, <<"<", "/", "M", "e", "s", "s", "a", "g", "e", "H", "e", "a", "d", "e", "r", ">">>}

\* name.split(':').last()
AfterLastColon(name) ==
    LET colons == {i \in DOMAIN name : name[i] = ":"}
    IN  IF colons = {} THEN name
        ELSE SubSeq(name, (CHOOSE i \in colons : \A j \in colons : j <= i) + 1, Len(name))

\* find_closing_tag_direct(buffer, start, element_type): the position of
\* the last byte of the nearest closing tag
find_closing_tag_direct(buf, start, element_type) ==
    LET data == Slice(buf, start, Len(buf))
    IN  IF element_type.kind = "Other"
        THEN LET pattern == <<"<", "/">> \o AfterLastColon(element_type.name) \o <<">">>
                 found == find_pattern_after(data, pattern)
             IN  IF IsSome(found) THEN Some(start + found.val + Len(pattern) - 1) ELSE None
        ELSE LET ends == {start + find_pattern_after(data, p).val + Len(p) - 1 :
                            p \in {q \in ClosingPatterns(element_type.kind) :
                                      IsSome(find_pattern_after(data, q))}}
             IN  IF ends = {} THEN None ELSE Some(Least(ends))

\* find_complete_element with size = end_pos - start
find_complete_element_short(buf, start) ==
    LET element_type == detect_element_type_from_bytes(Slice(buf, start, Len(buf)))
    IN  IF ~IsSome(element_type) THEN None
        ELSE LET end_pos == find_closing_tag_direct(buf, start, element_type.val)
             IN  IF ~IsSome(end_pos) THEN None
                 ELSE Some([element_type |-> element_type.val,
                            raw_content |-> Slice(buf, start, end_pos.val + 1),
                            position |-> start,
                            size |-> end_pos.val - start])

\* find_complete_element(buffer, start)
find_complete_element(buf, start) ==
    LET element_type == detect_element_type_from_bytes(Slice(buf, start, Len(buf)))
    IN  IF ~IsSome(element_type) THEN None
        ELSE LET end_pos == find_closing_tag_direct(buf, start, element_type.val)
             IN  IF ~IsSome(end_pos) THEN None
                 ELSE Some([element_type |-> element_type.val,
                            raw_content |-> Slice(buf, start, end_pos.val + 1),
                            position |-> start,
                            size |-> end_pos.val - start + 1])

\* memchr(b'<', &buffer[pos..]) as an absolute position
NextTagStart == memchr("<", Slice(sbuf, spos, Len(sbuf)))

\* abs_start + 1 < buffer.len() && buffer[abs_start + 1] == b'/'
IsClosingTag(abs_start) ==
    /\ abs_start + 1 < Len(sbuf)
    /\ sbuf[abs_start + 2] = "/"

\* the number of elements of one kind: elements.iter().filter(..).count()
CountKind(elements, variant) ==
    Cardinality({i \in DOMAIN elements : elements[i].element_type.kind = variant})

\* FastStreamingParser::new: parse_streaming not called yet
ScanIdle ==
    /\ sbuf = <<>>
    /\ spos = 0
    /\ selements = <<>>
    /\ spc = "new"
    /\ sconf = [has_callback |-> FALSE, progress_interval |-> 0, max_memory |-> 1000,
               enable_progress |-> FALSE]
    /\ slast = 0
    /\ sprog = <<>>
    /\ siter = 0

\* parse_streaming up to the loop: read_to_end(&mut buffer), pos = 0
scan_read ==
    /\ spc = "new"
    /\ sbuf' \in InputBuffers
    /\ sconf' \in ScanConfigs
    /\ spos' = 0
    /\ selements' = <<>>
    /\ slast' = 0
    /\ sprog' = <<>>
    /\ siter' = 0
    /\ spc' = "scan"
    /\ UNCHANGED notScan

\* the while loop ends: pos >= buffer.len(), or no '<' is left (break)
scan_exit ==
    /\ spc = "scan"
    /\ (spos >= Len(sbuf) \/ ~IsSome(NextTagStart))
    /\ spc' = "done"
    /\ UNCHANGED <<sbuf, spos, selements, sconf, slast, sprog, siter>>
    /\ UNCHANGED notScan

\* an iteration that skips a closing tag
scan_skip_closing ==
    /\ spc = "scan"
    /\ spos < Len(sbuf)
    /\ IsSome(NextTagStart)
    /\ LET abs_start == spos + NextTagStart.val
       IN  /\ IsClosingTag(abs_start)
           /\ spos' = abs_start + 1
    /\ siter' = siter + 1
    /\ UNCHANGED <<sbuf, selements, spc, sconf, slast, sprog>>
    /\ UNCHANGED notScan

\* an iteration that pushes a complete element
scan_emit ==
    /\ spc = "scan"
    /\ spos < Len(sbuf)
    /\ IsSome(NextTagStart)
    /\ LET abs_start == spos + NextTagStart.val
           element == find_complete_element(sbuf, abs_start)
       IN  /\ ~IsClosingTag(abs_start)
           /\ IsSome(element)
           /\ selements' = Append(selements, element.val)
           /\ IF sconf.has_callback /\ abs_start - slast >= sconf.progress_interval
              THEN /\ sprog' = Append(sprog,
                        [bytes_processed |-> abs_start,
                         elements_parsed |-> Len(selements'),
                         releases_parsed |-> CountKind(selements', "Release"),
                         estimated_total_bytes |-> Some(Len(sbuf))])
                   /\ slast' = abs_start
              ELSE UNCHANGED <<sprog, slast>>
           /\ spos' = abs_start + element.val.size
    /\ siter' = siter + 1
    /\ UNCHANGED <<sbuf, spc, sconf>>
    /\ UNCHANGED notScan

\* an iteration at a '<' that starts no complete element, leaving pos on it
scan_skip_open_stay ==
    /\ spc = "scan"
    /\ spos < Len(sbuf)
    /\ IsSome(NextTagStart)
    /\ LET abs_start == spos + NextTagStart.val
       IN  /\ ~IsClosingTag(abs_start)
           /\ ~IsSome(find_complete_element(sbuf, abs_start))
           /\ spos' = abs_start
    /\ siter' = siter + 1
    /\ UNCHANGED <<sbuf, selements, spc, sconf, slast, sprog>>
    /\ UNCHANGED notScan

\* an iteration at a '<' that starts no complete element
scan_skip_open ==
    /\ spc = "scan"
    /\ spos < Len(sbuf)
    /\ IsSome(NextTagStart)
    /\ LET abs_start == spos + NextTagStart.val
       IN  /\ ~IsClosingTag(abs_start)
           /\ ~IsSome(find_complete_element(sbuf, abs_start))
           /\ spos' = abs_start + 1
    /\ siter' = siter + 1
    /\ UNCHANGED <<sbuf, selements, spc, sconf, slast, sprog>>
    /\ UNCHANGED notScan

ScanNext ==
    \/ scan_read
    \/ scan_exit
    \/ scan_skip_closing
    \/ scan_emit
    \/ scan_skip_open

\* ------------------------------------------------------------------------
\* The xml argument of the parser operations.  An xml string is a sequence
\* of tokens; a token stands for the text it is named after.
\*   " "       one whitespace character
\*   "x"       one character of text
\*   "<"       a lone '<'
\*   "<?xml?>" the XML declaration
\*   "<M382>", "<M42>", "<M43>"
\*             the opening tag of a root element in the namespace of
\*             ERN 3.8.2, 4.2, 4.3
\*   "<M99>"   the opening tag of a root element in another namespace
\*   "</M>"    the closing tag of the root element
\*   "<R1/>"   a Release with reference R001 and title "Test Release 1"
\* ------------------------------------------------------------------------

Tokens == {" ", "x", "<", "<?xml?>", "<M382>", "<M42>", "<M43>", "<M99>", "</M>", "<R1/>"}

RootTokens == {"<M382>", "<M42>", "<M43>", "<M99>"}

\* the number of bytes of a token
TokenBytes(t) ==
    CASE t \in {" ", "x", "<"} -> 1
      [] t = "<?xml?>" -> 7
      [] t \in RootTokens -> 20
      [] t = "</M>" -> 4
      [] t = "<R1/>" -> 30

\* the first character of a token
FirstChar(t) == IF t \in {" ", "x"} THEN t ELSE "<"

XmlInputs == UNION {[1 .. n -> Tokens] : n \in 0 .. MaxTokens}

RECURSIVE XmlBytes(_)
\* xml.len()
XmlBytes(xml) ==
    IF xml = <<>> THEN 0 ELSE TokenBytes(Head(xml)) + XmlBytes(Tail(xml))

RECURSIVE trim_start(_)
\* str::trim_start
trim_start(xml) ==
    IF xml # <<>> /\ Head(xml) = " " THEN trim_start(Tail(xml)) ELSE xml

\* str::starts_with, for the patterns "<?xml" and '<'
str_starts_with(xml, pattern) ==
    /\ xml # <<>>
    /\ IF pattern = "<?xml" THEN Head(xml) = "<?xml?>"
       ELSE FirstChar(Head(xml)) = pattern

\* the tokens after the XML declaration and whitespace
Prolog(xml) ==
    LET t == trim_start(xml)
    IN  IF t # <<>> /\ Head(t) = "<?xml?>" THEN trim_start(Tail(t)) ELSE t

\* the releases of a document, in document order
ReleasesOf(xml) ==
    LET F[i \in 0 .. Len(xml)] ==
            IF i = 0 THEN <<>>
            ELSE IF xml[i] = "<R1/>"
                 THEN Append(F[i - 1], [release_reference |-> "R001", title |-> "Test Release 1"])
                 ELSE F[i - 1]
    IN  F[Len(xml)]

\* a well-formed document: declaration and whitespace, one root element
\* holding text and releases, whitespace
XmlWellFormed(xml) ==
    LET body == Prolog(xml)
    IN  /\ (xml # <<>> /\ Head(xml) = " ") => Head(trim_start(xml)) # "<?xml?>"
        /\ body # <<>>
        /\ Head(body) \in RootTokens
        /\ \E c \in 2 .. Len(body) :
            /\ body[c] = "</M>"
            /\ \A i \in 2 .. c - 1 : body[i] \in {" ", "x", "<R1/>"}
            /\ \A i \in c + 1 .. Len(body) : body[i] = " "

\* the document an xml string holds, as the core parser reads it
DocOf(xml) ==
    [len |-> XmlBytes(xml),
     well_formed |-> XmlWellFormed(xml),
     releases |-> [i \in DOMAIN ReleasesOf(xml) |-> <<>>],
     resources |-> <<>>,
     deals |-> <<>>]

\* ------------------------------------------------------------------------
\* Version detection
\* ------------------------------------------------------------------------

\* ERNVersion
ERNVersion == {"ERNVersion::V3_8_2", "ERNVersion::V4_2", "ERNVersion::V4_3"}

\* the version a root element's namespace names
NamespaceVersion(root) ==
    CASE root = "<M382>" -> Some("ERNVersion::V3_8_2")
      [] root = "<M42>" -> Some("ERNVersion::V4_2")
      [] root = "<M43>" -> Some("ERNVersion::V4_3")
      [] OTHER -> None

\* parser::detector::VersionDetector::detect(reader)
VersionDetector_detect(xml) ==
    LET body == Prolog(xml)
    IN  IF body = <<>> \/ Head(body) \notin RootTokens
        THEN [ok |-> FALSE, error |-> "XmlError"]
        ELSE IF IsSome(NamespaceVersion(Head(body)))
        THEN [ok |-> TRUE, version |-> NamespaceVersion(Head(body)).val]
        ELSE [ok |-> FALSE, error |-> "UnsupportedVersion"]

\* the ERNVersion written with its Debug name
version_to_string_debug(version) == version

\* version_to_string(version)
version_to_string(version) ==
    CASE version = "ERNVersion::V3_8_2" -> "V3_8_2"
      [] version = "ERNVersion::V4_2" -> "V4_2"
      [] version = "ERNVersion::V4_3" -> "V4_3"

\* parse_error_to_napi(err): the napi status of an error
parse_error_to_napi(error) ==
    IF error \in {"MissingField", "InvalidValue", "XmlError", "InvalidUtf8",
                  "SimpleXmlError", "MalformedXml", "MismatchedTags",
                  "UnexpectedClosingTag", "InvalidAttribute", "UnclosedTags",
                  "UnsupportedVersion"}
    THEN "InvalidArg"
    ELSE "GenericFailure"

\* a napi error
NapiErr(status, reason) == [ok |-> FALSE, status |-> status, reason |-> reason]

\* DdexParser::detect_version(xml)
detect_version_result(xml) ==
    IF xml = <<>> THEN NapiErr("InvalidArg", "empty")
    ELSE IF ~str_starts_with(trim_start(xml), "<?xml") /\ ~str_starts_with(trim_start(xml), "<")
    THEN NapiErr("InvalidArg", "not xml")
    ELSE LET r == VersionDetector_detect(xml)
         IN  IF r.ok
             THEN [ok |-> TRUE, value |-> version_to_string(r.version)]
             ELSE NapiErr(parse_error_to_napi(r.error), r.error)

\* ------------------------------------------------------------------------
\* Sanity check
\* ------------------------------------------------------------------------

\* DDEXParser::sanity_check(_reader)
DDEXParser_sanity_check(xml) ==
    [ok |-> TRUE, error |-> "",
     result |-> [is_valid |-> TRUE, version |-> "ERNVersion::V4_3",
                 errors |-> <<>>, warnings |-> <<>>]]

\* a report of the Node sanity_check
SanityCheckResult(is_valid, version, errors, warnings) ==
    [ok |-> TRUE,
     report |-> [is_valid |-> is_valid, version |-> version,
                 errors |-> errors, warnings |-> warnings]]

\* the sanity check reporting non-XML input without an error entry
sanity_check_result_silent(xml) ==
    IF xml = <<>>
    THEN SanityCheckResult(FALSE, "Unknown", <<"empty">>, <<>>)
    ELSE IF ~str_starts_with(trim_start(xml), "<?xml") /\ ~str_starts_with(trim_start(xml), "<")
    THEN SanityCheckResult(FALSE, "Unknown", <<>>, <<>>)
    ELSE LET r == DDEXParser_sanity_check(xml)
         IN  IF r.ok
             THEN SanityCheckResult(r.result.is_valid, version_to_string(r.result.version),
                                    r.result.errors, r.result.warnings)
             ELSE SanityCheckResult(FALSE, "Unknown", <<r.error>>, <<"Input size">>)

\* DdexParser::sanity_check(xml)
sanity_check_result(xml) ==
    IF xml = <<>>
    THEN SanityCheckResult(FALSE, "Unknown", <<"empty">>, <<>>)
    ELSE IF ~str_starts_with(trim_start(xml), "<?xml") /\ ~str_starts_with(trim_start(xml), "<")
    THEN SanityCheckResult(FALSE, "Unknown", <<"not xml">>, <<>>)
    ELSE LET r == DDEXParser_sanity_check(xml)
         IN  IF r.ok
             THEN SanityCheckResult(r.result.is_valid, version_to_string(r.result.version),
                                    r.result.errors, r.result.warnings)
             ELSE SanityCheckResult(FALSE, "Unknown", <<r.error>>, <<"Input size">>)

\* ------------------------------------------------------------------------
\* DdexParser::stream and ReleaseStream
\* ------------------------------------------------------------------------

\* format!("R{:03}", position)
ReleaseReference(position) == <<"R001", "R002", "R003">>[position]

\* format!("Test Release {}", position)
ReleaseTitle(position) == <<"Test Release 1", "Test Release 2", "Test Release 3">>[position]

\* ReleaseStream::new()
ReleaseStream_new == [position |-> 0]

\* ------------------------------------------------------------------------
\* impl From<ParseError> for FFIError
\* ------------------------------------------------------------------------

\* ErrorLocation values
Locations == {[line |-> 0, column |-> 0, path |-> "parser"],
              [line |-> 3, column |-> 7, path |-> "/Release"]}

\* ParseError values
ParseErrors ==
    {[variant |-> "XmlError", location |-> Some(l)] : l \in Locations}
    \cup {[variant |-> "ConversionError", location |-> Some(l)] : l \in Locations}
    \cup {[variant |-> v, location |-> None] :
            v \in {"UnsupportedVersion", "SecurityViolation", "Timeout", "Io"}}
    \cup {[variant |-> "Core", location |-> l] : l \in {None} \cup {Some(x) : x \in Locations}}

\* ErrorLocation -> FFIErrorLocation
FFIErrorLocation(location) ==
    [line |-> location.line, column |-> location.column, path |-> location.path]

\* impl From<DDEXError> for FFIError
FFIError_from_DDEXError(err) ==
    [code |-> "CORE_ERROR",
     location |-> IF IsSome(err.location)
                  THEN Some(FFIErrorLocation(err.location.val)) ELSE None,
     severity |-> Some("Error"), hint |-> Some("See the error message"),
     category |-> Some("Validation")]

\* FFIError::from(err)
FFIError_from(err) ==
    CASE err.variant = "Core" -> FFIError_from_DDEXError(err)
      [] err.variant = "XmlError" ->
            [code |-> "PARSE_XML_ERROR",
             location |-> Some(FFIErrorLocation(err.location.val)),
             severity |-> Some("Error"), hint |-> Some("Check XML syntax"),
             category |-> Some("XmlParsing")]
      [] err.variant = "UnsupportedVersion" ->
            [code |-> "UNSUPPORTED_VERSION", location |-> None,
             severity |-> Some("Error"), hint |-> Some("Use ERN 3.8.2, 4.2, or 4.3"),
             category |-> Some("Version")]
      [] err.variant = "SecurityViolation" ->
            [code |-> "SECURITY_VIOLATION", location |-> None,
             severity |-> Some("Error"),
             hint |-> Some("Check for XXE or entity expansion attacks"),
             category |-> Some("Validation")]
      [] err.variant = "Timeout" ->
            [code |-> "PARSE_TIMEOUT", location |-> None,
             severity |-> Some("Error"), hint |-> Some("File may be too large or complex"),
             category |-> Some("Io")]
      [] err.variant = "ConversionError" ->
            [code |-> "TYPE_CONVERSION_ERROR",
             location |-> Some(FFIErrorLocation(err.location.val)),
             severity |-> Some("Error"),
             hint |-> Some("Check builder state and validation"),
             category |-> Some("Validation")]
      [] err.variant = "Io" ->
            [code |-> "IO_ERROR", location |-> None,
             severity |-> Some("Error"), hint |-> None,
             category |-> Some("Io")]

\* ------------------------------------------------------------------------
\* DDEXParser::stream_with_version_detection and
\* DDEXParser::stream_parallel_with_version_detection
\* ------------------------------------------------------------------------

\* the two functions; their bodies differ in the iterator type only
Flavours == {"WorkingStreamIterator", "ParallelStreamingIterator"}

\* the number of bytes the detector has read when it returns: the input up
\* to the end of the root element's opening tag, or all of it
DetectConsumed(xml) ==
    LET roots == {i \in DOMAIN xml : xml[i] \in RootTokens}
    IN  IF roots = {} THEN XmlBytes(xml)
        ELSE XmlBytes(SubSeq(xml, 1, CHOOSE i \in roots : \A j \in roots : i <= j))

\* WorkingStreamIterator::new(reader, version) / ParallelStreamingIterator::new
StreamIterator_new(flavour, reader, version) ==
    [flavour |-> flavour, data |-> reader.data, start |-> reader.pos, version |-> version]

\* ------------------------------------------------------------------------
\* The operations
\* ------------------------------------------------------------------------

\* the parser objects, before any call.  The parsers keep no state between
\* calls of detect_version, sanity_check and parse_stream: a behaviour makes
\* one such call.
ApiIdle ==
    /\ qin = [op |-> "new"]
    /\ qret = [ok |-> TRUE]
    /\ rxml = <<>>
    /\ rstream = None
    /\ ryield = <<>>
    /\ wpc = "idle"
    /\ wreader = [data |-> <<>>, pos |-> 0, seek_ok |-> TRUE, flavour |-> "WorkingStreamIterator"]
    /\ wversion = None
    /\ witer = None
    /\ wret = [ok |-> TRUE]

qVars == <<qin, qret>>

rVars == <<rxml, rstream, ryield>>

wVars == <<wpc, wreader, wversion, witer, wret>>

\* a call of DdexParser::detect_version
detect_version ==
    /\ qin.op = "new"
    /\ \E xml \in XmlInputs :
        /\ qin' = [op |-> "detect_version", xml |-> xml]
        /\ qret' = detect_version_result(xml)
    /\ UNCHANGED <<rVars, wVars>>
    /\ UNCHANGED notApi

\* a call of DdexParser::sanity_check
sanity_check ==
    /\ qin.op = "new"
    /\ \E xml \in XmlInputs :
        /\ qin' = [op |-> "sanity_check", xml |-> xml]
        /\ qret' = sanity_check_result(xml)
    /\ UNCHANGED <<rVars, wVars>>
    /\ UNCHANGED notApi

\* a conversion of a ParseError to an FFIError
ffi_error_from ==
    /\ qin.op = "new"
    /\ \E err \in ParseErrors :
        /\ qin' = [op |-> "FFIError::from", err |-> err]
        /\ qret' = [ok |-> TRUE, ffi |-> FFIError_from(err)]
    /\ UNCHANGED <<rVars, wVars>>
    /\ UNCHANGED notApi

\* a call of the wasm DDEXParser::parse_stream: todo!() panics
wasm_parse_stream ==
    /\ qin.op = "new"
    /\ \E xml \in XmlInputs :
        /\ qin' = [op |-> "wasm_parse_stream", xml |-> xml]
        /\ qret' = [ok |-> FALSE, outcome |-> "panic"]
    /\ UNCHANGED <<rVars, wVars>>
    /\ UNCHANGED notApi

\* a call of DdexParser::stream(_xml, _options)
stream ==
    /\ rstream = None
    /\ \E xml \in XmlInputs :
        rxml' = xml
    /\ rstream' = Some(ReleaseStream_new)
    /\ ryield' = <<>>
    /\ UNCHANGED <<qVars, wVars>>
    /\ UNCHANGED notApi

\* a call of ReleaseStream::next
stream_next ==
    /\ IsSome(rstream)
    /\ Len(ryield) < MaxNext
    /\ IF rstream.val.position < 3
       THEN LET position == rstream.val.position + 1
            IN  /\ rstream' = Some([position |-> position])
                /\ ryield' = Append(ryield,
                        Some([release_reference |-> ReleaseReference(position),
                              title |-> ReleaseTitle(position)]))
       ELSE /\ ryield' = Append(ryield, None)
            /\ UNCHANGED rstream
    /\ UNCHANGED rxml
    /\ UNCHANGED <<qVars, wVars>>
    /\ UNCHANGED notApi

\* stream_with_version_detection: VersionDetector::detect(&mut reader)?
swvd_detect ==
    /\ wpc = "idle"
    /\ \E xml \in XmlInputs, seek_ok \in BOOLEAN, flavour \in Flavours :
        LET r == VersionDetector_detect(xml)
        IN  /\ wreader' = [data |-> xml, pos |-> DetectConsumed(xml),
                           seek_ok |-> seek_ok, flavour |-> flavour]
            /\ IF r.ok
               THEN /\ wversion' = Some(r.version)
                    /\ wpc' = "detected"
                    /\ UNCHANGED wret
               ELSE /\ wret' = [ok |-> FALSE, error |-> r.error]
                    /\ wpc' = "returned"
                    /\ UNCHANGED wversion
    /\ UNCHANGED witer
    /\ UNCHANGED <<qVars, rVars>>
    /\ UNCHANGED notApi

\* the seek left out: the reader stays where the detector stopped
swvd_seek_skipped ==
    /\ wpc = "detected"
    /\ IF wreader.seek_ok
       THEN /\ wpc' = "seeked"
            /\ UNCHANGED <<wreader, wret>>
       ELSE /\ wret' = [ok |-> FALSE, error |-> "Io"]
            /\ wpc' = "returned"
            /\ UNCHANGED wreader
    /\ UNCHANGED <<wversion, witer>>
    /\ UNCHANGED <<qVars, rVars>>
    /\ UNCHANGED notApi

\* stream_with_version_detection: reader.seek(SeekFrom::Start(0))?
swvd_seek ==
    /\ wpc = "detected"
    /\ IF wreader.seek_ok
       THEN /\ wreader' = [wreader EXCEPT !.pos = 0]
            /\ wpc' = "seeked"
            /\ UNCHANGED wret
       ELSE /\ wret' = [ok |-> FALSE, error |-> "Io"]
            /\ wpc' = "returned"
            /\ UNCHANGED wreader
    /\ UNCHANGED <<wversion, witer>>
    /\ UNCHANGED <<qVars, rVars>>
    /\ UNCHANGED notApi

\* stream_with_version_detection: Ok(WorkingStreamIterator::new(reader, version))
swvd_create ==
    /\ wpc = "seeked"
    /\ witer' = Some(StreamIterator_new(wreader.flavour, wreader, wversion.val))
    /\ wret' = [ok |-> TRUE, error |-> ""]
    /\ wpc' = "returned"
    /\ UNCHANGED <<wreader, wversion>>
    /\ UNCHANGED <<qVars, rVars>>
    /\ UNCHANGED notApi

QueryNext ==
    \/ detect_version
    \/ sanity_check
    \/ ffi_error_from
    \/ wasm_parse_stream

ReleaseStreamNext ==
    \/ stream
    \/ stream_next

DetectStreamNext ==
    \/ swvd_detect
    \/ swvd_seek
    \/ swvd_create

\* ------------------------------------------------------------------------
\* The builder bindings' functions on XML text: canonicalize_xml,
\* validate_structure, test_round_trip_fidelity.
\*
\* canonicalize_xml works on the characters of its argument.  Its argument
\* is a sequence of pieces of text:
\*   " ", "LF", "CR"   a space, a line feed, a carriage return
\*   "x"               one character of other text
\*   DeclHead, DeclTail
\*                     the two halves of the default XML declaration
\*                     <?xml version="1.0" encoding="UTF-8"?>
\*   AttrPattern       the text apply_db_c14n_canonicalization searches for
\*   AttrReplacement   the text it puts in its place
\* ------------------------------------------------------------------------

DeclHead == "<?xml version=1.0 enc"

DeclTail == "oding=UTF-8?>"

\* r#"<?xml version="1.0" encoding="UTF-8"?>"#
DefaultDecl == <<DeclHead, DeclTail>>

\* r#"BusinessTransactionId="([^"]*)" MessageSchemaVersionId="([^"]*)""#
AttrPattern == "BusinessTransactionId=([^]*) MessageSchemaVersionId=([^]*)"

\* r#"MessageSchemaVersionId="$2" BusinessTransactionId="$1""#
AttrReplacement == "MessageSchemaVersionId=$2 BusinessTransactionId=$1"

\* char::is_whitespace
Whitespace == {" ", "LF", "CR"}

CanonTokens == {" ", "LF", "CR", "x", DeclHead, DeclTail, AttrPattern}

MaxChars == 6

CanonInputs == UNION {[1 .. n -> CanonTokens] : n \in 0 .. MaxChars}

\* the canonicalization argument; "exc_c14n" is not a supported algorithm
Canonicalizations == {"none", "c14n", "db_c14n", "exc_c14n"}

RECURSIVE str_trim_start(_)
\* str::trim_start
str_trim_start(s) ==
    IF s # <<>> /\ Head(s) \in Whitespace THEN str_trim_start(Tail(s)) ELSE s

RECURSIVE str_trim_end(_)
\* str::trim_end
str_trim_end(s) ==
    IF s # <<>> /\ s[Len(s)] \in Whitespace
    THEN str_trim_end(SubSeq(s, 1, Len(s) - 1))
    ELSE s

\* str::trim
str_trim(s) == str_trim_end(str_trim_start(s))

\* str::starts_with(pat)
str_has_prefix(s, pat) == Len(s) >= Len(pat) /\ SubSeq(s, 1, Len(pat)) = pat

RECURSIVE str_replace(_, _, _)
\* str::replace(from, to): the non-overlapping matches, left to right
str_replace(s, from, to) ==
    IF Len(s) < Len(from) THEN s
    ELSE IF str_has_prefix(s, from)
    THEN to \o str_replace(SubSeq(s, Len(from) + 1, Len(s)), from, to)
    ELSE <<Head(s)>> \o str_replace(Tail(s), from, to)

RECURSIVE str_split(_, _)
\* str::split(sep), collected
str_split(s, sep) ==
    IF \A i \in DOMAIN s : s[i] # sep THEN <<s>>
    ELSE LET i == CHOOSE k \in DOMAIN s : s[k] = sep /\ \A j \in 1 .. k - 1 : s[j] # sep
         IN  <<SubSeq(s, 1, i - 1)>> \o str_split(SubSeq(s, i + 1, Len(s)), sep)

RECURSIVE trimmed_lines_joined(_)
\* .map(|line| line.trim()).filter(|line| !line.is_empty()).join("")
trimmed_lines_joined(lines) ==
    IF lines = <<>> THEN <<>>
    ELSE str_trim(Head(lines)) \o trimmed_lines_joined(Tail(lines))

\* str::contains, for the two attribute names
contains_attribute_names(s) ==
    \E i \in DOMAIN s : s[i] \in {AttrPattern, AttrReplacement}

\* WasmDdexBuilder::apply_db_c14n_canonicalization
apply_db_c14n_canonicalization(xml) ==
    LET canonical == trimmed_lines_joined(str_split(xml, "LF"))
    IN  IF contains_attribute_names(canonical)
        THEN str_replace(canonical, <<AttrPattern>>, <<AttrReplacement>>)
        ELSE canonical

\* WasmDdexBuilder::apply_c14n_canonicalization
apply_c14n_canonicalization(xml) ==
    LET canonical ==
            IF str_has_prefix(xml, DefaultDecl)
            THEN str_trim_start(str_replace(xml, DefaultDecl, <<>>))
            ELSE xml
    IN  str_replace(str_replace(canonical, <<"CR", "LF">>, <<"LF">>), <<"CR">>, <<"LF">>)

\* what WasmDdexBuilder::canonicalize_xml returns
canonicalize_xml_result(xml, canonicalization) ==
    CASE canonicalization = "db_c14n" ->
            [ok |-> TRUE, xml |-> apply_db_c14n_canonicalization(xml)]
      [] canonicalization = "c14n" ->
            [ok |-> TRUE, xml |-> apply_c14n_canonicalization(xml)]
      [] canonicalization = "none" -> [ok |-> TRUE, xml |-> xml]
      [] OTHER -> [ok |-> FALSE, error |-> "Unsupported canonicalization algorithm"]

\* the most calls of canonicalize_xml on one text
MaxCanonCalls == 2

\* a call of WasmDdexBuilder::canonicalize_xml, on a new text or on the
\* text the call before returned
canonicalize_xml ==
    /\ qin.op \in {"new", "canonicalize_xml"}
    /\ qin.op = "canonicalize_xml" => (qret.ok /\ qin.calls < MaxCanonCalls)
    /\ \E canonicalization \in Canonicalizations :
       \E xml \in (IF qin.op = "new" THEN CanonInputs ELSE {qret.xml}) :
        /\ qin' = [op |-> "canonicalize_xml",
                   xml |-> xml,
                   canonicalization |-> canonicalization,
                   calls |-> IF qin.op = "new" THEN 1 ELSE qin.calls + 1,
                   previous |-> IF qin.op = "new" THEN None ELSE Some(qin.canonicalization)]
        /\ qret' = canonicalize_xml_result(xml, canonicalization)
    /\ UNCHANGED <<rVars, wVars>>
    /\ UNCHANGED notApi

\* ------------------------------------------------------------------------
\* validate_structure
\* ------------------------------------------------------------------------

Bindings == {"node", "wasm"}

\* quick_xml::Reader::from_str(&xml).read_event(): the first event of the
\* text; an error when the text starts a tag that it never ends
read_event_ok(xml) ==
    \/ xml = <<>>
    \/ Head(xml) # "<"
    \/ \E i \in 2 .. Len(xml) : xml[i] \notin {" ", "x", "<"}

\* validate_structure(xml), Node binding
node_validate_structure(xml) ==
    IF read_event_ok(xml)
    THEN [is_valid |-> TRUE, errors |-> <<>>]
    ELSE [is_valid |-> FALSE, errors |-> <<"XML parsing error">>]

\* validate_structure(xml), wasm binding
wasm_validate_structure(xml) ==
    IF xml = <<>>
    THEN [is_valid |-> FALSE, errors |-> <<"XML cannot be empty">>]
    ELSE IF /\ ~str_starts_with(trim_start(xml), "<?xml")
            /\ ~str_starts_with(trim_start(xml), "<")
    THEN [is_valid |-> FALSE, errors |-> <<"Invalid XML format">>]
    ELSE [is_valid |-> TRUE, errors |-> <<>>]

\* a call of validate_structure
validate_structure ==
    /\ qin.op = "new"
    /\ \E binding \in Bindings, xml \in XmlInputs :
        /\ qin' = [op |-> "validate_structure", binding |-> binding, xml |-> xml]
        /\ qret' = IF binding = "node" THEN node_validate_structure(xml)
                   ELSE wasm_validate_structure(xml)
    /\ UNCHANGED <<rVars, wVars>>
    /\ UNCHANGED notApi

\* ------------------------------------------------------------------------
\* test_round_trip_fidelity
\* ------------------------------------------------------------------------

\* the fidelity_options argument
RoundTripOptions ==
    {None} \cup
    {Some([enable_perfect_fidelity |-> p, enable_deterministic_ordering |-> d]) :
        p \in BOOLEAN, d \in BOOLEAN}

\* DdexBuilder::test_round_trip_fidelity, Node binding; scores in hundredths
node_test_round_trip_fidelity(original_xml, fidelity_options) ==
    [round_trip_success |-> TRUE,
     fidelity_score |-> 98,
     canonicalization_consistent |-> TRUE,
     determinism_verified |-> TRUE,
     issues |-> <<"Minor whitespace differences in comments">>]

\* WasmDdexBuilder::test_round_trip_fidelity; scores in hundredths
wasm_test_round_trip_fidelity(original_xml, fidelity_options) ==
    LET fidelity_score ==
            IF IsSome(fidelity_options)
            THEN IF fidelity_options.val.enable_perfect_fidelity THEN 99 ELSE 90
            ELSE 85
    IN  [round_trip_success |-> fidelity_score > 95,
         fidelity_score |-> fidelity_score,
         canonicalization_consistent |-> TRUE,
         determinism_verified |->
            IsSome(fidelity_options) /\ fidelity_options.val.enable_deterministic_ordering,
         issues |-> IF fidelity_score < 100
                    THEN <<"Minor whitespace differences detected in browser environment">>
                    ELSE <<>>]

\* a call of test_round_trip_fidelity
test_round_trip_fidelity ==
    /\ qin.op = "new"
    /\ \E binding \in Bindings, original_xml \in XmlInputs, fidelity_options \in RoundTripOptions :
        /\ qin' = [op |-> "test_round_trip_fidelity", binding |-> binding,
                   original_xml |-> original_xml, fidelity_options |-> fidelity_options]
        /\ qret' = IF binding = "node"
                   THEN node_test_round_trip_fidelity(original_xml, fidelity_options)
                   ELSE wasm_test_round_trip_fidelity(original_xml, fidelity_options)
    /\ UNCHANGED <<rVars, wVars>>
    /\ UNCHANGED notApi

TextNext ==
    \/ canonicalize_xml
    \/ validate_structure
    \/ test_round_trip_fidelity

\* ------------------------------------------------------------------------
\* FastStreamingIterator (fast_streaming_parser.rs)
\* ------------------------------------------------------------------------

\* FastStreamingElement values
IterElements ==
    {[element_type |-> [kind |-> "Release", name |-> ""], position |-> 0, size |-> 20],
     [element_type |-> [kind |-> "Deal", name |-> ""], position |-> 20, size |-> 14],
     [element_type |-> [kind |-> "Other", name |-> "M"], position |-> 40, size |-> 7]}

\* the elements vectors an iterator is created with
ElementVectors == UNION {[1 .. n -> IterElements] : n \in 0 .. MaxElements}

\* the stats handed to new
StatsInputs ==
    {[total_elements |-> t, total_bytes |-> b] : t \in {0, 9}, b \in {0, 60}}

\* FastStreamingIterator::new(elements, stats)
FastStreamingIterator_new(elements, stats_in) ==
    [elements |-> elements, position |-> 0,
     stats |-> [stats_in EXCEPT !.total_elements = Len(elements)]]

\* FastStreamingIterator::stats()
iter_stats(it) == it.stats

\* FastStreamingIterator::size_hint()
size_hint(it) ==
    LET remaining == Len(it.elements) - it.position
    IN  <<remaining, Some(remaining)>>

\* before FastStreamingIterator::new
IterIdle ==
    /\ fiter = None
    /\ fyield = <<>>

\* a call of FastStreamingIterator::new
iterator_new ==
    /\ fiter = None
    /\ \E elements \in ElementVectors, stats_in \in StatsInputs :
        fiter' = Some(FastStreamingIterator_new(elements, stats_in))
    /\ UNCHANGED fyield
    /\ UNCHANGED notIter

\* next() that does not advance the position
iterator_next_stay ==
    /\ IsSome(fiter)
    /\ Len(fyield) < MaxIterNext
    /\ IF fiter.val.position < Len(fiter.val.elements)
       THEN LET element == fiter.val.elements[fiter.val.position + 1]
            IN  /\ fiter' = fiter
                /\ fyield' = Append(fyield, Some(element))
       ELSE /\ fyield' = Append(fyield, None)
            /\ UNCHANGED fiter
    /\ UNCHANGED notIter

\* a call of next()
iterator_next ==
    /\ IsSome(fiter)
    /\ Len(fyield) < MaxIterNext
    /\ IF fiter.val.position < Len(fiter.val.elements)
       THEN LET element == fiter.val.elements[fiter.val.position + 1]
            IN  /\ fiter' = Some([fiter.val EXCEPT !.position = fiter.val.position + 1])
                /\ fyield' = Append(fyield, Some(element))
       ELSE /\ fyield' = Append(fyield, None)
            /\ UNCHANGED fiter
    /\ UNCHANGED notIter

IterNext ==
    \/ iterator_new
    \/ iterator_next

\* ------------------------------------------------------------------------
\* Specifications
\* ------------------------------------------------------------------------

\* the streaming builder, before any call
StreamIdle ==
    /\ inner = None
    /\ buffer = <<>>
    /\ sret = Ret("new", TRUE, <<>>, 0)
    /\ ncalls = 0

\* the builder, before any call
BuildIdle ==
    /\ kind = "node"
    /\ releases = <<>>
    /\ resources = <<>>
    /\ stats = NewStats
    /\ task = [t \in Tasks |-> IdleTask]
    /\ applied = None
    /\ bret = [op |-> "new", ok |-> TRUE]
    /\ nbuilds = 0

\* StreamingDdexBuilder::new, the other objects idle
StreamInit ==
    /\ StreamIdle
    /\ BuildIdle
    /\ ParseIdle
    /\ ScanIdle
    /\ ApiIdle
    /\ IterIdle

\* DdexBuilder::new / WasmDdexBuilder::new, the other objects idle
BuildInit ==
    /\ kind \in {"node", "wasm"}
    /\ releases = <<>>
    /\ resources = <<>>
    /\ stats = NewStats
    /\ task = [t \in Tasks |-> IdleTask]
    /\ applied = None
    /\ bret = [op |-> "new", ok |-> TRUE]
    /\ nbuilds = 0
    /\ StreamIdle
    /\ ParseIdle
    /\ ScanIdle
    /\ ApiIdle
    /\ IterIdle

\* a node builder holding one release and one resource, no build run yet
RaceInit ==
    /\ kind = "node"
    /\ \E release \in ReleaseValues, resource \in ResourceValues :
        /\ releases = <<release>>
        /\ resources = <<resource>>
    /\ stats = [NewStats EXCEPT !.releases_count = 1, !.resources_count = 1]
    /\ task = [t \in Tasks |-> IdleTask]
    /\ applied = None
    /\ bret = [op |-> "new", ok |-> TRUE]
    /\ nbuilds = 0
    /\ StreamIdle
    /\ ParseIdle
    /\ ScanIdle
    /\ ApiIdle
    /\ IterIdle

\* DdexParser::new, the other objects idle
ParseInit ==
    /\ ParseIdle
    /\ StreamIdle
    /\ BuildIdle
    /\ ScanIdle
    /\ ApiIdle
    /\ IterIdle

\* FastStreamingParser::new, the other objects idle
ScanInit ==
    /\ ScanIdle
    /\ StreamIdle
    /\ BuildIdle
    /\ ParseIdle
    /\ ApiIdle
    /\ IterIdle

\* DdexParser::new / DDEXParser::new, the other objects idle
QueryInit ==
    /\ ApiIdle
    /\ IterIdle
    /\ StreamIdle
    /\ BuildIdle
    /\ ParseIdle
    /\ ScanIdle

\* no call of the builder bindings' text functions made yet
TextInit ==
    /\ ApiIdle
    /\ IterIdle
    /\ BuildIdle
    /\ StreamIdle
    /\ ParseIdle
    /\ ScanIdle

\* DdexParser::new before stream() is called, the other objects idle
ReleaseStreamInit ==
    /\ ApiIdle
    /\ IterIdle
    /\ ScanIdle
    /\ StreamIdle
    /\ BuildIdle
    /\ ParseIdle

\* DDEXParser::new before stream_with_version_detection is called
DetectStreamInit ==
    /\ ApiIdle
    /\ IterIdle
    /\ ParseIdle
    /\ ScanIdle
    /\ StreamIdle
    /\ BuildIdle

\* before FastStreamingIterator::new, the other objects idle
IterInit ==
    /\ IterIdle
    /\ ApiIdle
    /\ StreamIdle
    /\ BuildIdle
    /\ ParseIdle
    /\ ScanIdle

SpecStream == StreamInit /\ [][StreamNext]_vars

SpecBuild == BuildInit /\ [][BuildNext]_vars

SpecRace == RaceInit /\ [][RaceNext]_vars

SpecParse == ParseInit /\ [][ParseNext]_vars

SpecScan == ScanInit /\ [][ScanNext]_vars

SpecQuery == QueryInit /\ [][QueryNext]_vars

SpecReleaseStream == ReleaseStreamInit /\ [][ReleaseStreamNext]_vars

SpecDetectStream == DetectStreamInit /\ [][DetectStreamNext]_vars

SpecIter == IterInit /\ [][IterNext]_vars

SpecText == TextInit /\ [][TextNext]_vars

\* ------------------------------------------------------------------------
\* Claims about the parser operations
\* ------------------------------------------------------------------------

\* the items a ReleaseStream yielded before its first None
YieldedReleases ==
    LET ends == {i \in DOMAIN ryield : ryield[i] = None}
        n == IF ends = {} THEN Len(ryield)
             ELSE (CHOOSE i \in ends : \A j \in ends : i <= j) - 1
    IN  [i \in 1 .. n |-> ryield[i].val]

\* C14: stream(xml) yields the releases of the given xml in document order:
\* once next() has returned None, the items returned before it are exactly
\* the releases of the input, one item per release with its reference and
\* title.
C14_StreamYieldsInputReleases ==
    (IsSome(rstream) /\ ryield # <<>> /\ ryield[Len(ryield)] = None)
    => YieldedReleases = ReleasesOf(rxml)

\* C15: sanity_check never raises: for every input it returns a report
\* with is_valid, version, errors and warnings, and a report with
\* is_valid = false has a non-empty errors list.
C15_SanityCheckAlwaysReports ==
    qin.op = "sanity_check" =>
        /\ qret.ok
        /\ DOMAIN qret.report = {"is_valid", "version", "errors", "warnings"}
        /\ qret.report.is_valid \in BOOLEAN
        /\ ~qret.report.is_valid => qret.report.errors # <<>>

\* C15 witness: sanity_check was called with text that does not start
\* with '<' and returned an invalid report with an error entry.
C15_Witness ==
    /\ qin.op = "sanity_check"
    /\ qin.xml # <<>>
    /\ trim_start(qin.xml) # <<>>
    /\ Head(trim_start(qin.xml)) = "x"
    /\ qret.ok
    /\ ~qret.report.is_valid
    /\ qret.report.errors # <<>>

\* C16: sanity_check detects what the full parse rejects: for an input on
\* which parse_sync fails with an XML error, sanity_check returns
\* is_valid = false with at least one entry in errors.
C16_SanityCheckDetectsParseFailures ==
    (/\ qin.op = "sanity_check"
     /\ ~parse_sync_result(DocOf(qin.xml), None).ok
     /\ parse_sync_result(DocOf(qin.xml), None).error = "XmlError")
    => (~qret.report.is_valid /\ qret.report.errors # <<>>)

\* the first non-whitespace character of the xml is not '<'
NotXmlLooking(xml) ==
    trim_start(xml) = <<>> \/ FirstChar(Head(trim_start(xml))) # "<"

\* C17: detect_version returns an invalid-argument error for empty input
\* and for input whose first non-whitespace character is not '<', and a
\* successful result is exactly one of V3_8_2, V4_2, V4_3.
C17_DetectVersionDistinctError ==
    qin.op = "detect_version" =>
        /\ (qin.xml = <<>> \/ NotXmlLooking(qin.xml))
            => (~qret.ok /\ qret.status = "InvalidArg")
        /\ qret.ok => qret.value \in {"V3_8_2", "V4_2", "V4_3"}

\* C17 witness: a call on text with leading whitespace and no '<' was
\* rejected with an invalid-argument error.
C17_Witness ==
    /\ qin.op = "detect_version"
    /\ Len(qin.xml) >= 2
    /\ qin.xml[1] = " "
    /\ NotXmlLooking(qin.xml)
    /\ ~qret.ok
    /\ qret.status = "InvalidArg"

\* C18: the streaming iterator is created only after version detection
\* succeeded and the reader was re-seeked to offset 0, and with the
\* detected version; when detection or the seek fails the call returns an
\* error and no iterator is created.
C18_IteratorAfterDetectAndSeek ==
    /\ IsSome(witer) =>
        /\ VersionDetector_detect(witer.val.data).ok
        /\ witer.val.version = VersionDetector_detect(witer.val.data).version
        /\ witer.val.start = 0
        /\ witer.val.flavour = wreader.flavour
        /\ wpc = "returned" /\ wret.ok
    /\ (wpc = "returned" /\ (~VersionDetector_detect(wreader.data).ok \/ ~wreader.seek_ok))
        => (~wret.ok /\ witer = None)
    /\ (wpc = "returned" /\ wret.ok) => IsSome(witer)

\* C18 witness: the detector read past the start of a 4.2 document, the
\* reader was re-seeked, and the iterator was created.
C18_Witness ==
    /\ wpc = "returned"
    /\ IsSome(witer)
    /\ DetectConsumed(wreader.data) > 0
    /\ witer.val.version = "ERNVersion::V4_2"
    /\ witer.val.flavour = "ParallelStreamingIterator"
    /\ witer.val.start = 0

\* C19: every ParseError converted to an FFIError carries a category, a
\* severity and a hint, and a location exactly when the variant holds one.
C19_FFIErrorComplete ==
    qin.op = "FFIError::from" =>
        /\ IsSome(qret.ffi.category)
        /\ IsSome(qret.ffi.severity)
        /\ IsSome(qret.ffi.hint)
        /\ IsSome(qret.ffi.location) <=> IsSome(qin.err.location)

\* C20: the wasm parse_stream returns an explicit success or error value
\* for every input; it never panics.
C20_ParseStreamNeverPanics ==
    qin.op = "wasm_parse_stream" => qret.outcome \in {"Ok", "Err"}

\* the stored data of a build call holds a release one of whose track
\* resources has no ISRC
HasTrackWithoutIsrc(t) ==
    \E i \in DOMAIN task[t].rels : \E j \in DOMAIN task[t].ress :
        /\ Contains(task[t].rels[i].track_ids, task[t].ress[j].resource_id)
        /\ ~IsSome(task[t].ress[j].isrc)

RECURSIVE SumElapsed(_)
\* the build time the successful calls among S spent in total
SumElapsed(S) ==
    IF S = {} THEN 0
    ELSE LET t == CHOOSE x \in S : TRUE
         IN  (IF task[t].ok THEN task[t].elapsed ELSE 0) + SumElapsed(S \ {t})

\* C4: two successful build calls given the same data argument on a builder
\* holding the same releases and resources (and the same preset) return
\* identical XML.
C4_BuildDeterministic ==
    \A t1 \in Tasks : \A t2 \in Tasks :
        (/\ task[t1].pc = "done" /\ task[t1].ok
         /\ task[t2].pc = "done" /\ task[t2].ok
         /\ task[t1].data = task[t2].data
         /\ task[t1].rels = task[t2].rels
         /\ task[t1].ress = task[t2].ress
         /\ task[t1].preset = task[t2].preset)
        => task[t1].xml = task[t2].xml

\* C5: once the overlapping build calls on one DdexBuilder have all
\* returned, total_build_time_ms holds the time of every successful call
\* (no lost update) and last_build_size_bytes is the size of one of them,
\* as it would after running the calls one after the other.
C5_StatsAsIfSerialized ==
    (/\ kind = "node"
     /\ nbuilds = MaxBuilds
     /\ \A t \in Tasks : task[t].pc = "done")
    => /\ stats.total_build_time_ms = SumElapsed(Tasks)
       /\ (\E t \in Tasks : task[t].ok)
            => (\E t \in Tasks : task[t].ok /\ stats.last_build_size_bytes = Len(task[t].xml))

\* C6: a build call made after apply_preset("spotify_album") on stored data
\* whose release has a track resource without ISRC is rejected and returns
\* no XML.
C6_PresetRejectsMissingIsrc ==
    \A t \in Tasks :
        (/\ kind = "node"
         /\ task[t].pc = "done"
         /\ task[t].data = None
         /\ task[t].preset = Some("spotify_album")
         /\ HasTrackWithoutIsrc(t))
        => (~task[t].ok /\ task[t].xml = <<>>)

BuildStep == \E t \in Tasks : task'[t] # task[t]

\* C25: a build call never changes the stored releases, the stored
\* resources or their counts, and the step in which a call fails changes
\* no stats field: last_build_size_bytes and total_build_time_ms change
\* only in a call that succeeds.
C25_BuildFrame ==
    [][BuildStep =>
        /\ releases' = releases
        /\ resources' = resources
        /\ stats'.releases_count = stats.releases_count
        /\ stats'.resources_count = stats.resources_count
        /\ (\A t \in Tasks :
                (task'[t] # task[t] /\ task'[t].pc = "done" /\ ~task'[t].ok)
                => stats' = stats)
        /\ stats' # stats
            => \E t \in Tasks : task'[t].pc \in {"sized", "done"} /\ task'[t].xml # <<>>]_vars

\* C25 witness: after a successful build, a second build call failed in
\* the underlying builder and the stats of the first call are still there.
C25_Witness ==
    /\ kind = "node"
    /\ task[1].pc = "done" /\ task[1].ok
    /\ task[2].pc = "done" /\ ~task[2].ok
    /\ IsSome(task[2].data) /\ task[2].data.val.is_object
    /\ stats.last_build_size_bytes = Len(task[1].xml)
    /\ stats.last_build_size_bytes > 0

\* C27: every preset name returned by get_available_presets is accepted by
\* get_preset_info, apply_preset and get_preset_validation_rules: an
\* apply_preset call with a listed name succeeds, and the two lookups know
\* the name.
C27_ListedPresetsAccepted ==
    (bret.op = "apply_preset" /\ bret.preset_name \in AvailablePresets)
    => /\ bret.ok
       /\ get_preset_info_ok(bret.preset_name)
       /\ get_preset_validation_rules_ok(bret.preset_name)

\* ------------------------------------------------------------------------
\* Claims about FastStreamingIterator
\* ------------------------------------------------------------------------

\* the number of elements yielded so far
YieldedCount == Cardinality({i \in DOMAIN fyield : IsSome(fyield[i])})

\* C28: the iterator yields each stored element exactly once, in stored
\* order, and then None on every later call; size_hint() is (r, Some(r))
\* with r the number of elements not yet yielded; stats().total_elements
\* is the number of elements the iterator yields in total.
C28_IteratorYieldsEachOnce ==
    IsSome(fiter) =>
        LET stored == fiter.val.elements
            k == IF Len(fyield) < Len(stored) THEN Len(fyield) ELSE Len(stored)
        IN  /\ \A j \in 1 .. k : fyield[j] = Some(stored[j])
            /\ \A j \in k + 1 .. Len(fyield) : fyield[j] = None
            /\ size_hint(fiter.val) = <<Len(stored) - YieldedCount,
                                        Some(Len(stored) - YieldedCount)>>
            /\ (fyield # <<>> /\ fyield[Len(fyield)] = None)
                => iter_stats(fiter.val).total_elements = YieldedCount
            /\ iter_stats(fiter.val).total_elements = Len(stored)

\* C28 witness: an iterator over two elements has yielded both and has
\* then returned None twice.
C28_Witness ==
    /\ IsSome(fiter)
    /\ Len(fiter.val.elements) = 2
    /\ Len(fyield) = 4
    /\ IsSome(fyield[1]) /\ IsSome(fyield[2])
    /\ fyield[3] = None /\ fyield[4] = None
    /\ size_hint(fiter.val) = <<0, Some(0)>>

\* the last call was made on the Node binding
NodeParseCall == pin.op \in {"parse_sync", "parse"}

\* C7: parse_sync and parse of the Node binding never return an empty
\* success: a returned ParsedMessage has at least one release, resource or
\* deal, and a well-formed document holding none of them gets an error.
C7_NoEmptySuccess ==
    NodeParseCall =>
        /\ pret.ok =>
            pret.message.val.release_count + pret.message.val.resource_count
                + pret.message.val.deal_count > 0
        /\ (pin.doc.val.releases = <<>> /\ pin.doc.val.resources = <<>>
                /\ pin.doc.val.deals = <<>>) => ~pret.ok

\* C7 witness: the core parse succeeded on a document without releases,
\* resources and deals, and parse_sync returned the no-data error.
C7_Witness ==
    /\ pin.op = "parse_sync"
    /\ pin.doc.val.well_formed
    /\ pin.doc.val.len > 0
    /\ pin.doc.val.releases = <<>>
    /\ pin.doc.val.resources = <<>>
    /\ pin.doc.val.deals = <<>>
    /\ ~pret.ok
    /\ pret.error = "NoData"

\* the resolve_references value a call passed, if any
ResolveReferencesArg ==
    IF IsSome(pin.options) THEN pin.options.val.resolve_references ELSE None

\* C8: for a document whose release carries a token matching no resource,
\* parse_sync fails with a missing-reference error when resolve_references
\* is true or unset, and succeeds when resolve_references is false.
C8_ResolveReferencesHonoured ==
    (/\ pin.op = "parse_sync"
     /\ pin.doc.val.well_formed
     /\ pin.doc.val.len > 0
     /\ pin.doc.val.len <= MaxXmlBytes
     /\ HasDanglingReference(pin.doc.val))
    => IF ResolveReferencesArg = Some(FALSE)
       THEN pret.ok
       ELSE ~pret.ok /\ pret.error = "MissingReference"

\* C23: the fidelity_info the Node parser returns agrees with the requested
\* fidelity_level: with fidelity_level = "fast" and no preserve_* flag set,
\* comments, processing instructions, attribute order and namespace prefixes
\* are all reported as not preserved.
C23_FastFidelityPreservesNothing ==
    (/\ pin.op = "parse_sync"
     /\ pret.ok
     /\ IsSome(pin.options)
     /\ pin.options.val.fidelity_level = Some("fast")
     /\ pin.options.val.preserve_comments = None
     /\ pin.options.val.preserve_processing_instructions = None
     /\ pin.options.val.preserve_attribute_order = None
     /\ pin.options.val.preserve_namespace_prefixes = None)
    => /\ IsSome(pret.message.val.fidelity_info)
       /\ LET info == pret.message.val.fidelity_info.val
          IN  /\ ~info.comments_preserved
              /\ ~info.processing_instructions_preserved
              /\ ~info.attribute_order_preserved
              /\ ~info.namespace_prefixes_preserved

\* C9: every iteration of the scan loop of parse_streaming strictly
\* advances pos without passing the end of the buffer, so the loop runs at
\* most one iteration per input byte.
C9_ScanAdvancesAndTerminates ==
    /\ [][(spc = "scan" /\ siter' = siter + 1)
            => (spos' > spos /\ spos' <= Len(sbuf))]_vars
    /\ [](siter <= Len(sbuf))

\* C9 witness: the loop ended after skipping a closing tag, pushing an
\* element and passing a '<' that starts no complete element.
C9_Witness ==
    /\ spc = "done"
    /\ Len(selements) = 1
    /\ spos > selements[1].position + selements[1].size
    /\ selements[1].position > 0

\* C10: the elements are in document order and do not overlap, none
\* reaches past the end of the input, and size is the length of raw_content.
C10_ElementsOrdered ==
    /\ \A i \in DOMAIN selements :
        /\ selements[i].size = Len(selements[i].raw_content)
        /\ selements[i].position + selements[i].size <= Len(sbuf)
        /\ selements[i].raw_content
            = Slice(sbuf, selements[i].position, selements[i].position + selements[i].size)
    /\ \A i \in DOMAIN selements : \A j \in DOMAIN selements :
        i < j => /\ selements[i].position < selements[j].position
                 /\ selements[i].position + selements[i].size <= selements[j].position

\* C10 witness: parse_streaming returned two elements.
C10_Witness ==
    /\ spc = "done"
    /\ Len(selements) >= 2


\* the exact tag names of an element type
TypeNames(variant) ==
    IF variant = "Release" THEN {<<"R", "e", "l", "e", "a", "s", "e">>, <<"e", "r", "n", ":", "R", "e", "l", "e", "a", "s", "e">>}
    ELSE IF variant = "Resource"
    THEN {<<"R", "e", "s", "o", "u", "r", "c", "e">>, <<"e", "r", "n", ":", "R", "e", "s", "o", "u", "r", "c", "e">>, <<"S", "o", "u", "n", "d", "R", "e", "c", "o", "r", "d", "i", "n", "g">>, <<"e", "r", "n", ":", "S", "o", "u", "n", "d", "R", "e", "c", "o", "r", "d", "i", "n", "g">>}
    ELSE IF variant = "Party" THEN {<<"P", "a", "r", "t", "y">>, <<"e", "r", "n", ":", "P", "a", "r", "t", "y">>}
    ELSE IF variant = "Deal" THEN {<<"D", "e", "a", "l">>, <<"e", "r", "n", ":", "D", "e", "a", "l">>}
    ELSE {<<"M", "e", "s", "s", "a", "g", "e", "H", "e", "a", "d", "e", "r">>, <<"e", "r", "n", ":", "M", "e", "s", "s", "a", "g", "e", "H", "e", "a", "d", "e", "r">>}

\* the bytes of tag are at position i of buf
TagAt(buf, i, tag) ==
    /\ i + Len(tag) <= Len(buf)
    /\ SubSeq(buf, i + 1, i + Len(tag)) = tag

\* an opening tag with exactly this name starts at position i
OpenAt(buf, i, name) ==
    /\ TagAt(buf, i, <<"<">> \o name)
    /\ i + Len(name) + 1 < Len(buf)
    /\ IsBoundary(buf[i + Len(name) + 2])

\* the closing tag of this name starts at position i
CloseAt(buf, i, name) == TagAt(buf, i, <<"<", "/">> \o name \o <<">">>)

\* where the element opened at position i closes: the first closing tag of
\* its name with as many openings as closings of that name in between
MatchingClose(buf, i, name) ==
    LET opens == {o \in 0 .. Len(buf) - 1 : OpenAt(buf, o, name)}
        closes == {c \in 0 .. Len(buf) - 1 : CloseAt(buf, c, name)}
        cands == {j \in closes :
                    /\ j > i
                    /\ Cardinality({o \in opens : i < o /\ o < j})
                        = Cardinality({c \in closes : i < c /\ c < j})}
    IN  IF cands = {} THEN None ELSE Some(Least(cands))

\* the element spans exactly one element of the input named name
IsCompleteEntity(element, name) ==
    /\ OpenAt(sbuf, element.position, name)
    /\ MatchingClose(sbuf, element.position, name)
        = Some(element.position + element.size - (Len(name) + 3))

RECURSIVE WellFormedFrom(_, _, _)
\* the tags of buf from position i on are well nested, given the names of
\* the elements open at i (innermost last)
WellFormedFrom(buf, i, open) ==
    LET t == memchr("<", Slice(buf, i, Len(buf)))
    IN  IF ~IsSome(t) THEN open = <<>>
        ELSE
            LET a == i + t.val
                closing == a + 1 < Len(buf) /\ buf[a + 2] = "/"
                s0 == IF closing THEN a + 2 ELSE a + 1
                ends == {k \in s0 .. Len(buf) - 1 : IsBoundary(buf[k + 1])}
            IN  IF ends = {} THEN FALSE
                ELSE
                    LET e == Least(ends)
                        name == Slice(buf, s0, e)
                    IN  IF name = <<>> \/ (\E k \in DOMAIN name : name[k] = "<")
                        THEN FALSE
                        ELSE IF closing
                        THEN /\ buf[e + 1] = ">"
                             /\ open # <<>>
                             /\ open[Len(open)] = name
                             /\ WellFormedFrom(buf, e + 1, SubSeq(open, 1, Len(open) - 1))
                        ELSE IF buf[e + 1] = "/"
                        THEN WellFormedFrom(buf, e + 1, open)
                        ELSE /\ buf[e + 1] = ">"
                             /\ WellFormedFrom(buf, e + 1, Append(open, name))

\* the input is well-formed XML as far as its tags go
WellFormed(buf) == WellFormedFrom(buf, 0, <<>>)

\* C11: every emitted element of type Release, Resource, Party, Deal or
\* MessageHeader starts at the opening tag of an element with exactly that
\* name and ends at that element's matching closing tag (stated for
\* well-formed input).
C11_CompleteEntities ==
    \A i \in DOMAIN selements :
        (WellFormed(sbuf) /\ selements[i].element_type.kind # "Other")
        => \E name \in TypeNames(selements[i].element_type.kind) :
                IsCompleteEntity(selements[i], name)

\* the complete Release elements of the input, as <<start, end>> with end
\* the position after the closing tag
CompleteReleases(buf) ==
    {<<o, MatchingClose(buf, o, name).val + Len(name) + 3>> :
        <<o, name>> \in {<<p, n>> \in (0 .. Len(buf) - 1) \X TypeNames("Release") :
                            /\ OpenAt(buf, p, n)
                            /\ IsSome(MatchingClose(buf, p, n))}}

\* the emitted elements of type Release
ReleaseElements ==
    {i \in DOMAIN selements : selements[i].element_type.kind = "Release"}

\* C12: the iterator returned for a (well-formed) input holds, for every
\* complete Release element of the input, a different element of type
\* Release that contains it; hence at least as many as the input has.
C12_EveryReleaseEmitted ==
    (spc = "done" /\ WellFormed(sbuf))
    => \E f \in [CompleteReleases(sbuf) -> ReleaseElements] :
            /\ \A r1 \in DOMAIN f : \A r2 \in DOMAIN f : f[r1] = f[r2] => r1 = r2
            /\ \A r \in DOMAIN f :
                /\ selements[f[r]].position <= r[1]
                /\ r[2] <= selements[f[r]].position + selements[f[r]].size

\* C13: parse_streaming never holds more input than config.max_memory: an
\* input larger than the ceiling is answered with an error, not buffered,
\* scanned and returned as elements.
C13_MemoryCeilingEnforced ==
    spc \in {"scan", "done"} => Len(sbuf) <= sconf.max_memory

\* C30: parse_streaming invokes the progress callback only when
\* config.enable_progress is true: with enable_progress = false a supplied
\* callback is never called.
C30_ProgressOnlyWhenEnabled ==
    sprog # <<>> => sconf.enable_progress

\* The operations that need a message in progress.
MessageOps ==
    {"write_resource", "finish_resources_start_releases", "write_release", "finish_message"}

\* C1: get_xml called right after a successful finish_message returns the
\* bytes the streaming builder emitted: as many as finish_message reported
\* in bytes_written, hence non-empty when anything was written.
C1_GetXmlReturnsEmitted ==
    [][(sret.op = "finish_message" /\ sret.ok
            /\ ncalls' = ncalls + 1 /\ sret'.op = "get_xml")
        => (/\ sret'.ok
            /\ Len(sret'.xml) = sret.bytes_written
            /\ (sret.bytes_written > 0 => sret'.xml # <<>>))]_vars

\* C2: with no message in progress, write_resource,
\* finish_resources_start_releases, write_release and finish_message return
\* an error and change neither self.inner nor self.buffer.
C2_RejectedWhenNotStarted ==
    [][(~IsSome(inner) /\ ncalls' = ncalls + 1 /\ sret'.op \in MessageOps)
        => (~sret'.ok /\ inner' = inner /\ buffer' = buffer)]_vars

\* C2 witness: write_resource was rejected and no message is in progress
\* (write_resource never ends a message, so none was in progress before).
C2_Witness ==
    /\ sret.op = "write_resource"
    /\ ~sret.ok
    /\ ~IsSome(inner)
    /\ ncalls > 1

\* C3: start_message called while a message is in progress returns an error
\* and keeps the in-progress message.
C3_StartRejectedWhileInProgress ==
    [][(IsSome(inner) /\ ncalls' = ncalls + 1 /\ sret'.op = "start_message")
        => (~sret'.ok /\ inner' = inner)]_vars


\* C26: finish_message always ends the message: when it returns, with
\* stats or with an error, no message is in progress; the operation called
\* next fails if it needs a message in progress, and a get_xml called next
\* does not fail.
C26_FinishAlwaysEnds ==
    [][ncalls' = ncalls + 1 =>
        /\ sret'.op = "finish_message" => ~IsSome(inner')
        /\ (sret.op = "finish_message" /\ sret'.op \in MessageOps) => ~sret'.ok
        /\ (sret.op = "finish_message" /\ sret'.op = "get_xml") => sret'.ok]_vars

\* C26 witness: finish_message returned stats for a message that was in
\* progress, and no message is in progress any more.
C26_Witness ==
    /\ sret.op = "finish_message"
    /\ sret.ok
    /\ sret.bytes_written > 0
    /\ ~IsSome(inner)

\* ------------------------------------------------------------------------
\* Claims about the builder bindings' text functions
\* ------------------------------------------------------------------------

\* C21: canonicalize_xml is idempotent: canonicalizing the text a call
\* returned, with the same supported algorithm, returns that text unchanged.
C21_CanonicalizeIdempotent ==
    (/\ qin.op = "canonicalize_xml"
     /\ IsSome(qin.previous)
     /\ qin.previous.val = qin.canonicalization
     /\ qin.canonicalization \in {"none", "c14n", "db_c14n"})
    => (qret.ok /\ qret.xml = qin.xml)

\* C22: test_round_trip_fidelity reports round_trip_success = true only for
\* an original that round-trips; an original that is not a well-formed
\* document cannot be re-parsed, so it is reported as a failure.
C22_RoundTripIsReal ==
    (qin.op = "test_round_trip_fidelity" /\ qret.round_trip_success)
    => XmlWellFormed(qin.original_xml)

\* C29: validate_structure reports is_valid = false with a non-empty errors
\* list for every input that is not well-formed XML.
C29_ValidateStructureRejects ==
    (qin.op = "validate_structure" /\ ~XmlWellFormed(qin.xml))
    => (~qret.is_valid /\ qret.errors # <<>>)

====
